---- MODULE Spec2Model ----
(***************************************************************************)
(* Verification model of bombardino: the DAG planner (pkg/variables),      *)
(* the flat execution engine (pkg/engine) and the phase-sequenced          *)
(* scheduler that runs a plan.                                             *)
(***************************************************************************)
EXTENDS Integers, Sequences, FiniteSets, TLC

(***************************************************************************)
(* Bounds of the model.                                                    *)
(***************************************************************************)
\* longest input list handed to BuildDAG
MaxTests == 3
\* longest depends_on list of one test
MaxDeps == 2
\* most depends_on entries of one input list, all tests together
MaxEdges == 3

\* most worker goroutines of an engine (the -workers flag)
MaxWorkers == 2
\* largest iterations value of a config, global or per test
MaxIterations == 2
\* most inline data rows of a test
MaxRows == 2
\* most tests of a config run by the flat engine
MaxFlatTests == 2
\* largest response time the server model takes (in ticks)
MaxResponseTime == 1
\* most jobs of a run of the scheduler (tests x iterations)
MaxRunJobs == 4

\* the test names the inputs are drawn from
Names == {"A", "B", "C"}

SeqsUpTo(S, n) == UNION {[1..k -> S] : k \in 0..n}

(***************************************************************************)
(* pkg/variables/dag.go                                                    *)
(***************************************************************************)
\* type TestDependency struct { Name string; DependsOn []string }
TestDependency == [Name : Names, DependsOn : SeqsUpTo(Names, MaxDeps)]

\* testNames after the "Initialize all tests" loop: the set of names
TestNameSet(ts) == {ts[i].Name : i \in DOMAIN ts}

\* the positions (i, j) the "Build dependency graph" loops visit, in order
\* i = index of the test, j = index in its DependsOn
DepPositions(ts) == UNION {{<<i, j>> : j \in DOMAIN ts[i].DependsOn} : i \in DOMAIN ts}

DepAt(ts, p) == ts[p[1]].DependsOn[p[2]]

\* positions whose dependency is not a key of testNames
UnknownPositions(ts) == {p \in DepPositions(ts) : DepAt(ts, p) \notin TestNameSet(ts)}

\* the first such position in loop order (the one the code returns on)
FirstUnknown(ts) ==
    CHOOSE p \in UnknownPositions(ts) :
        \A q \in UnknownPositions(ts) :
            \/ p[1] < q[1]
            \/ (p[1] = q[1] /\ p[2] <= q[2])

\* inDegree after the build loops: inDegree[test.Name]++ once per entry of
\* DependsOn, summed over every list entry that carries the name
InitialInDegree(ts) ==
    [n \in TestNameSet(ts) |->
        Cardinality({p \in DepPositions(ts) : ts[p[1]].Name = n})]

\* how many times `dependent` was appended to dependents[name]
DependentsCount(ts, name, dependent) ==
    Cardinality({p \in DepPositions(ts) :
                    ts[p[1]].Name = dependent /\ DepAt(ts, p) = name})

\* mutant: also takes tests that still wait for one dependency
CurrentPhase_OffByOne(testNames, inDegree) == {n \in testNames : inDegree[n] <= 1}

\* mutant: one test per phase, although others are ready as well
CurrentPhase_OneAtATime(testNames, inDegree) ==
    IF \E n \in testNames : inDegree[n] = 0
    THEN {CHOOSE n \in testNames : inDegree[n] = 0}
    ELSE {}

\* "Find all tests with no remaining dependencies (in-degree = 0)"
CurrentPhase(testNames, inDegree) == {n \in testNames : inDegree[n] = 0}

\* mutant: an empty phase ends the plan instead of reporting the cycle
EmptyPhaseResult_NoError(phases) == [err |-> "none", Phases |-> phases]

\* "If no tests can be processed, we have a cycle"
EmptyPhaseResult(phases) == [err |-> "cyclic dependency", Phases |-> <<>>]

\* Kahn's algorithm with level tracking: the `for processed < totalTests` loop
RECURSIVE Kahn(_, _, _, _, _)
Kahn(ts, testNames, inDegree, processed, phases) ==
    IF ~(processed < Len(ts))
    THEN [err |-> "none", Phases |-> phases]
    ELSE LET currentPhase == CurrentPhase(testNames, inDegree) IN
         IF currentPhase = {}
         THEN EmptyPhaseResult(phases)
         ELSE Kahn(ts,
                   testNames \ currentPhase,
                   [n \in (DOMAIN inDegree) \ currentPhase |->
                        inDegree[n] - Cardinality({p \in DepPositions(ts) :
                                                      /\ ts[p[1]].Name = n
                                                      /\ DepAt(ts, p) \in currentPhase})],
                   processed + Cardinality(currentPhase),
                   Append(phases, currentPhase))

\* mutant: the existence check of a dependency is dropped
HasUnknown_Never(ts) == FALSE

\* "Check if dependency exists": some DependsOn entry is no key of testNames
HasUnknown(ts) == UnknownPositions(ts) # {}

\* func BuildDAG(tests []TestDependency) (*ExecutionPlan, error)
\* A phase is modelled as the set of its names: the code fills it by ranging
\* over a map, so its order is not determined and it holds no name twice.
BuildDAG(ts) ==
    IF Len(ts) = 0
    THEN [err |-> "none", Phases |-> <<>>]
    ELSE IF HasUnknown(ts)
    THEN [err |-> "unknown dependency", Phases |-> <<>>]
    ELSE Kahn(ts, TestNameSet(ts), InitialInDegree(ts), 0, <<>>)

\* func (ep *ExecutionPlan) GetPhaseForTest(testName string) int  (0-based, -1 if absent)
GetPhaseForTest(phases, testName) ==
    IF \E i \in DOMAIN phases : testName \in phases[i]
    THEN (CHOOSE i \in DOMAIN phases :
             /\ testName \in phases[i]
             /\ \A j \in DOMAIN phases : testName \in phases[j] => i <= j) - 1
    ELSE -1

(***************************************************************************)
(* Graph notions the claims are stated with (not code).                    *)
(***************************************************************************)
\* direct dependencies of a name: the DependsOn entries of every list entry with that name
DepsOf(ts, n) == UNION {{ts[i].DependsOn[j] : j \in DOMAIN ts[i].DependsOn} :
                          i \in {k \in DOMAIN ts : ts[k].Name = n}}

\* names reachable from n along at least `k <= bound` dependency edges
RECURSIVE ReachFrom(_, _, _)
ReachFrom(ts, S, k) ==
    IF k = 0 THEN S
    ELSE LET nxt == S \cup UNION {DepsOf(ts, m) : m \in S \cap TestNameSet(ts)}
         IN IF nxt = S THEN S ELSE ReachFrom(ts, nxt, k - 1)

\* the dependency graph has a cycle: some name reaches itself
HasCycle(ts) ==
    \E n \in TestNameSet(ts) :
        n \in ReachFrom(ts, DepsOf(ts, n), Cardinality(Names))

AllResolve(ts) == \A i \in DOMAIN ts : \A j \in DOMAIN ts[i].DependsOn :
                      ts[i].DependsOn[j] \in TestNameSet(ts)

(***************************************************************************)
(* State.                                                                  *)
(***************************************************************************)
VARIABLES
    dagTests,   \* the list handed to BuildDAG
    dagOut,     \* what BuildDAG returned, or the record with err "pending"
    dagPc,      \* "input" while the list is put together, "returned" after the call
    config,     \* *models.Config of the run, with the engine's worker count
    pc,         \* where Engine.Run is: "idle", "running" or "done"
    producer,   \* the job generator goroutine: test index, iteration, finished
    jobs,       \* the jobs channel (buffered), oldest first
    jobsClosed, \* close(jobs) happened
    workers,    \* per worker goroutine: its state and the job it holds
    results,    \* the results channel (buffered), oldest first
    resultsClosed, \* close(results) happened
    summary,    \* the *models.Summary the aggregator builds
    allResults, \* collectResults' allResults slice
    sent,       \* per test index: jobs put on the jobs channel so far
    phase,      \* phase-sequenced scheduler: index of the current phase (1-based)
    failedTests,\* phase-sequenced scheduler: names of the tests that failed or were skipped
    store,      \* the variable store of the run: name -> value, present names only
    started,    \* per test name: jobs whose request was started
    produced,   \* per test name: results produced (executed or skipped)
    written,    \* the value and phase of the last extraction into x, <<>> before it
    now,        \* the wall clock of a timed run, in ticks since Run was called
    requests,   \* the request bodies the server received, in order of arrival
    times,      \* the []time.Duration handed to calculatePercentile
    pct,        \* what calculatePercentile returned, with its percentile
    lock,       \* Store.mu: the writer that holds it and the readers that hold it
    clients,    \* per goroutine that calls the Store: its call and where it stands
    linear,     \* the Store of the calls in the order they took the lock
    callIn,     \* the arguments of the function call under study
    callOut     \* what that call returned, <<>> before the call

dagVars == <<dagTests, dagOut, dagPc>>
runVars == <<config, pc, producer, jobs, jobsClosed, workers, results,
             resultsClosed, summary, allResults, sent>>
schedVars == <<phase, failedTests, store, started, produced, written>>
auxVars == <<now, requests, times, pct, lock, clients, linear, callIn, callOut>>
vars == <<dagTests, dagOut, dagPc, config, pc, producer, jobs, jobsClosed,
          workers, results, resultsClosed, summary, allResults, sent,
          phase, failedTests, store, started, produced, written,
          now, requests, times, pct, lock, clients, linear, callIn, callOut>>

\* the clock, the server's log, the percentile call and the Store's callers
\* while none of them is in use
NoAux ==
    /\ now = 0
    /\ requests = <<>>
    /\ times = <<>>
    /\ pct = <<>>
    /\ lock = [writer |-> 0, readers |-> {}]
    /\ clients = <<>>
    /\ linear = <<>>
    /\ callIn = <<>>
    /\ callOut = <<>>

\* the scheduler part of the state while no plan is run
NoSchedule ==
    /\ phase = 0
    /\ failedTests = {}
    /\ store = <<>>
    /\ started = <<>>
    /\ produced = <<>>
    /\ written = <<>>

\* the engine part of the state while no run exists
NoRun ==
    /\ config = [workers |-> 0, Iterations |-> 0, Delay |-> 0, Tests |-> <<>>]
    /\ pc = "idle"
    /\ producer = [test |-> 1, i |-> 0, finished |-> FALSE]
    /\ jobs = <<>>
    /\ jobsClosed = FALSE
    /\ workers = <<>>
    /\ results = <<>>
    /\ resultsClosed = FALSE
    /\ summary = [TotalRequests |-> 0]
    /\ allResults = <<>>
    /\ sent = <<>>

(***************************************************************************)
(* SpecBuildDAG: BuildDAG applied to every bounded input list.             *)
(***************************************************************************)
Min(a, b) == IF a <= b THEN a ELSE b

\* depends_on entries of a list, all tests together
EdgeCount(ts) == Cardinality(DepPositions(ts))

InitBuildDAG ==
    /\ NoRun
    /\ NoSchedule
    /\ NoAux
    /\ dagTests = <<>>
    /\ dagOut = [err |-> "pending", Phases |-> <<>>]
    /\ dagPc = "input"

\* the caller puts one more test on the list it is going to hand over
AddTest ==
    /\ dagPc = "input"
    /\ Len(dagTests) < MaxTests
    /\ \E n \in Names, d \in SeqsUpTo(Names, Min(MaxDeps, MaxEdges - EdgeCount(dagTests))) :
          dagTests' = Append(dagTests, [Name |-> n, DependsOn |-> d])
    /\ UNCHANGED <<dagOut, dagPc>>
    /\ UNCHANGED <<runVars, schedVars>>
    /\ UNCHANGED auxVars

CallBuildDAG ==
    /\ dagPc = "input"
    /\ dagOut' = BuildDAG(dagTests)
    /\ dagPc' = "returned"
    /\ UNCHANGED dagTests
    /\ UNCHANGED <<runVars, schedVars>>
    /\ UNCHANGED auxVars

NextBuildDAG == AddTest \/ CallBuildDAG

SpecBuildDAG == InitBuildDAG /\ [][NextBuildDAG]_vars

(***************************************************************************)
(* pkg/engine/engine.go: the flat engine.                                  *)
(***************************************************************************)
\* make(chan Job, 1000) and make(chan models.TestResult, 1000)
JobsCap == 1000
ResultsCap == 1000

\* what the server model answers: a status code, or 0 for no response at all
\* (client.Do returned an error: connection refused, timeout)
StatusOK == 200
StatusServerError == 500
NoResponse == 0
\* the outcome "createRequest returned an error": no request is sent at all
NoRequest == 1
Outcomes == {StatusOK, StatusServerError, NoResponse}
ResponseTimes == 1..MaxResponseTime

\* the iterations of one test: "iterations := test.Iterations;
\* if iterations == 0 { iterations = config.Global.Iterations }"
EffectiveIterations(cfg, t) ==
    IF cfg.Tests[t].Iterations = 0 THEN cfg.Iterations ELSE cfg.Tests[t].Iterations

\* generateIterationBasedJobs: the bound of "for i := 0; i < iterations; i++"
JobsOfTest(cfg, t) == EffectiveIterations(cfg, t)

\* func (e *Engine) isExpectedStatus(statusCode int, expectedStatuses []int) bool
isExpectedStatus(statusCode, expectedStatuses) == statusCode \in expectedStatuses

\* func (e *Engine) executeTest(job Job) models.TestResult, given what
\* happened: the result of a request that could not be created (it carries no
\* response time), the transport-error result or the response result
executeTest(cfg, t, outcome, rt) ==
    IF outcome = NoRequest
    THEN [TestName |-> cfg.Tests[t].Name, StatusCode |-> 0, ResponseTime |-> 0,
          Success |-> FALSE, Error |-> "failed to create request", Skipped |-> FALSE,
          SkipReason |-> ""]
    ELSE IF outcome = NoResponse
    THEN [TestName |-> cfg.Tests[t].Name, StatusCode |-> 0, ResponseTime |-> rt,
          Success |-> FALSE, Error |-> "transport error", Skipped |-> FALSE,
          SkipReason |-> ""]
    ELSE LET success == isExpectedStatus(outcome, cfg.Tests[t].ExpectedStatus) IN
         [TestName |-> cfg.Tests[t].Name, StatusCode |-> outcome, ResponseTime |-> rt,
          Success |-> success,
          Error |-> IF success THEN "" ELSE "unexpected status code",
          Skipped |-> FALSE, SkipReason |-> ""]

\* mutant: a key that is absent is not added
Incr_OnlyPresent(m, k) ==
    [x \in DOMAIN m |-> IF x = k THEN m[x] + 1 ELSE m[x]]

\* m[k]++ on a Go map: a key that is absent reads as zero and is added
Incr(m, k) ==
    [x \in (DOMAIN m) \cup {k} |->
        IF x = k THEN (IF k \in DOMAIN m THEN m[k] + 1 ELSE 1) ELSE m[x]]

\* &models.Summary{StatusCodes: ..., Errors: ..., EndpointResults: ...}
EmptySummary ==
    [TotalRequests |-> 0, SuccessfulReqs |-> 0, FailedReqs |-> 0, SkippedReqs |-> 0,
     MinResponseTime |-> 0, MaxResponseTime |-> 0, AvgResponseTime |-> 0,
     P50ResponseTime |-> 0, P95ResponseTime |-> 0, P99ResponseTime |-> 0,
     StatusCodes |-> <<>>, Errors |-> <<>>, EndpointResults |-> <<>>]

\* &models.EndpointSummary{Name: ..., StatusCodes: ..., Errors: []string{}}
EmptyEndpoint(name) ==
    [Name |-> name, TotalRequests |-> 0, SuccessfulReqs |-> 0, FailedReqs |-> 0,
     SkippedReqs |-> 0, AvgResponseTime |-> 0,
     P50ResponseTime |-> 0, P95ResponseTime |-> 0, P99ResponseTime |-> 0,
     StatusCodes |-> <<>>, Errors |-> <<>>]

\* mutant: a failed result without a response is not counted as failed
CountFailed_OnlyWithStatus(n, result) ==
    IF result.StatusCode = 0 THEN n ELSE n + 1

\* "summary.FailedReqs++" of the else branch
CountFailed(n, result) == n + 1

\* mutant: the endpoint counts a request only when it succeeded
CollectEndpoint_TotalOnSuccess(ep, result) ==
    [ep EXCEPT
        !.TotalRequests = IF result.Success THEN @ + 1 ELSE @,
        !.SuccessfulReqs = IF result.Success THEN @ + 1 ELSE @,
        !.FailedReqs = IF result.Success THEN @ ELSE @ + 1,
        !.Errors = IF ~result.Success /\ result.Error # ""
                   THEN Append(@, result.Error) ELSE @,
        !.StatusCodes = Incr(@, result.StatusCode)]

\* the endpoint part of the loop body of collectResults
CollectEndpoint(ep, result) ==
    [ep EXCEPT
        !.TotalRequests = @ + 1,
        !.SuccessfulReqs = IF result.Success THEN @ + 1 ELSE @,
        !.FailedReqs = IF result.Success THEN @ ELSE CountFailed(@, result),
        !.Errors = IF ~result.Success /\ result.Error # ""
                   THEN Append(@, result.Error) ELSE @,
        !.StatusCodes = Incr(@, result.StatusCode)]

\* the body of "for result := range results" in collectResults
CollectOne(sum, result) ==
    LET key == result.TestName
        eps == IF key \in DOMAIN sum.EndpointResults
               THEN sum.EndpointResults
               ELSE [k \in (DOMAIN sum.EndpointResults) \cup {key} |->
                        IF k = key THEN EmptyEndpoint(key) ELSE sum.EndpointResults[k]]
    IN [sum EXCEPT
          !.TotalRequests = @ + 1,
          !.SuccessfulReqs = IF result.Success THEN @ + 1 ELSE @,
          !.FailedReqs = IF result.Success THEN @ ELSE CountFailed(@, result),
          !.Errors = IF ~result.Success /\ result.Error # ""
                     THEN Incr(@, result.Error) ELSE @,
          !.StatusCodes = Incr(@, result.StatusCode),
          !.MinResponseTime = IF @ = 0 \/ result.ResponseTime < @
                              THEN result.ResponseTime ELSE @,
          !.MaxResponseTime = IF result.ResponseTime > @ THEN result.ResponseTime ELSE @,
          !.EndpointResults = [eps EXCEPT ![key] = CollectEndpoint(@, result)]]

(***************************************************************************)
(* calculatePercentile.  Durations are whole nanoseconds; the float64 index     *)
(* percentile * (len-1) / 100.0 is kept as the exact numerator             *)
(* percentile * (len-1) over 100.                                          *)
(***************************************************************************)
MaxTimes == 4
MaxDuration == 4

Percentiles == {0, 25, 50, 75, 95, 99, 100}

\* sort.Slice(times, func(i, j int) bool { return times[i] < times[j] })
SortTimes(ts) == SortSeq(ts, LAMBDA a, b : a < b)

\* int(index): the conversion of the float64 index to int truncates
IntOfIndex(index100) == index100 \div 100

\* func calculatePercentile(times []time.Duration, percentile float64) time.Duration
\* (slices are 0-based in the source and 1-based here)
calculatePercentile(ts, percentile) ==
    LET s == SortTimes(ts)
        index100 == percentile * (Len(ts) - 1)
        lowerIndex == IntOfIndex(index100)
        upperIndex == lowerIndex + 1
    IN  IF Len(ts) = 0 THEN 0
        ELSE IF upperIndex >= Len(ts) THEN s[Len(ts)]
        ELSE IF lowerIndex = IntOfIndex(index100) THEN s[lowerIndex + 1]
        ELSE (100 * s[lowerIndex + 1]
                + (index100 - 100 * lowerIndex) * (s[upperIndex + 1] - s[lowerIndex + 1]))
             \div 100

\* the response times of a list of results, in its order
TimesOf(all) == [i \in DOMAIN all |-> all[i].ResponseTime]

\* the results of one test, in the order of the list
ResultsOfTest(all, name) == SelectSeq(all, LAMBDA r : r.TestName = name)

SumTimes(ts) == LET f[i \in 0..Len(ts)] == IF i = 0 THEN 0 ELSE f[i - 1] + ts[i] IN f[Len(ts)]

\* collectResults after the range loop, "if len(allResults) > 0 { ... }": the
\* averages and the percentiles, of the run and of every endpoint (TotalTime
\* and RequestsPerSec are wall-clock values and are left out)
FinalStats(sum, all) ==
    IF Len(all) = 0 THEN sum
    ELSE [sum EXCEPT
            !.AvgResponseTime = SumTimes(TimesOf(all)) \div Len(all),
            !.P50ResponseTime = calculatePercentile(TimesOf(all), 50),
            !.P95ResponseTime = calculatePercentile(TimesOf(all), 95),
            !.P99ResponseTime = calculatePercentile(TimesOf(all), 99),
            !.EndpointResults =
                [k \in DOMAIN @ |->
                    LET ts == TimesOf(ResultsOfTest(all, k)) IN
                    IF Len(ts) = 0 THEN @[k]
                    ELSE [@[k] EXCEPT
                            !.AvgResponseTime = SumTimes(ts) \div Len(ts),
                            !.P50ResponseTime = calculatePercentile(ts, 50),
                            !.P95ResponseTime = calculatePercentile(ts, 95),
                            !.P99ResponseTime = calculatePercentile(ts, 99)]]]

FlatNames == {"A", "B"}
\* a test either leaves iterations unset (0) or overrides the global value with 1
FlatTestCases ==
    [Name : FlatNames, Iterations : {0, 1}, Data : {0, MaxRows},
     DependsOn : {<<>>}, ExpectedStatus : {{StatusOK}}]
\* the configs the flat engine is run on; the first test is named "A"
FlatConfigs ==
    {c \in [workers : 1..MaxWorkers, Iterations : 1..MaxIterations, Delay : {0, 1},
            Tests : UNION {[1..k -> FlatTestCases] : k \in 1..MaxFlatTests}] :
        c.Tests[1].Name = "A"}

\* mutant: one worker more than configured is started
WorkerCount_OneMore(cfg) == cfg.workers + 1

\* "for i := 0; i < e.workers; i++ { ... go e.worker(...) }": the size of the pool
WorkerCount(cfg) == cfg.workers

\* Engine.Run up to the start of collectResults: the channels are made, the
\* workers, the job generator and the closer of results are started
Init ==
    /\ NoSchedule
    /\ NoAux
    /\ dagTests = <<>>
    /\ dagOut = [err |-> "pending", Phases |-> <<>>]
    /\ dagPc = "input"
    /\ config \in FlatConfigs
    /\ pc = "running"
    /\ producer = [test |-> 1, i |-> 0, finished |-> FALSE]
    /\ jobs = <<>>
    /\ jobsClosed = FALSE
    /\ workers = [w \in 1..WorkerCount(config) |-> [st |-> "idle", job |-> 0]]
    /\ results = <<>>
    /\ resultsClosed = FALSE
    /\ summary = EmptySummary
    /\ allResults = <<>>
    /\ sent = [t \in DOMAIN config.Tests |-> 0]

\* generateIterationBasedJobs: one "jobs <- Job{...}" of the loops over the
\* tests and over i; the generator then stands before the next send
Produce ==
    /\ pc = "running"
    /\ ~producer.finished
    /\ producer.test \in DOMAIN config.Tests
    /\ Len(jobs) < JobsCap
    /\ jobs' = Append(jobs, producer.test)
    /\ sent' = [sent EXCEPT ![producer.test] = @ + 1]
    /\ producer' = IF producer.i + 1 < JobsOfTest(config, producer.test)
                   THEN [producer EXCEPT !.i = @ + 1]
                   ELSE [producer EXCEPT !.test = @ + 1, !.i = 0]
    /\ UNCHANGED <<config, pc, jobsClosed, workers, results, resultsClosed,
                   summary, allResults>>
    /\ UNCHANGED <<dagVars, schedVars>>
    /\ UNCHANGED auxVars

\* generateIterationBasedJobs returns and "defer close(jobs)" runs
CloseJobs ==
    /\ pc = "running"
    /\ ~producer.finished
    /\ producer.test \notin DOMAIN config.Tests
    /\ producer' = [producer EXCEPT !.finished = TRUE]
    /\ jobsClosed' = TRUE
    /\ UNCHANGED <<config, pc, jobs, workers, results, resultsClosed, summary,
                   allResults, sent>>
    /\ UNCHANGED <<dagVars, schedVars>>
    /\ UNCHANGED auxVars

\* worker: "case job, ok := <-jobs" with ok true; the HTTP exchange starts
WorkerDequeue(w) ==
    /\ pc = "running"
    /\ workers[w].st = "idle"
    /\ jobs # <<>>
    /\ workers' = [workers EXCEPT ![w] = [st |-> "exec", job |-> Head(jobs)]]
    /\ jobs' = Tail(jobs)
    /\ UNCHANGED <<config, pc, producer, jobsClosed, results, resultsClosed,
                   summary, allResults, sent>>
    /\ UNCHANGED <<dagVars, schedVars>>
    /\ UNCHANGED auxVars

\* mutant: a worker blocks for good after it has sent a result
AfterJob_Blocked(cfg, result) == "blocked"

\* mutant: a worker returns after a job that failed
AfterJob_ExitOnFailure(cfg, result) ==
    IF ~result.Success THEN "exited"
    ELSE IF cfg.Delay > 0 THEN "delay" ELSE "idle"

\* worker: what follows "results <- result": the delay if there is one, then
\* the next round of the loop, whatever the result was
AfterJob(cfg, result) == IF cfg.Delay > 0 THEN "delay" ELSE "idle"

\* worker: "result := e.executeTest(job); results <- result", then the delay
WorkerExecute(w) ==
    /\ pc = "running"
    /\ workers[w].st = "exec"
    /\ Len(results) < ResultsCap
    /\ \E outcome \in Outcomes, rt \in ResponseTimes :
          LET result == executeTest(config, workers[w].job, outcome, rt) IN
          /\ results' = Append(results, result)
          /\ workers' = [workers EXCEPT ![w].st = AfterJob(config, result)]
    /\ UNCHANGED <<config, pc, producer, jobs, jobsClosed, resultsClosed,
                   summary, allResults, sent>>
    /\ UNCHANGED <<dagVars, schedVars>>
    /\ UNCHANGED auxVars

\* worker: "case <-time.After(delay)"
WorkerDelayDone(w) ==
    /\ pc = "running"
    /\ workers[w].st = "delay"
    /\ workers' = [workers EXCEPT ![w].st = "idle"]
    /\ UNCHANGED <<config, pc, producer, jobs, jobsClosed, results, resultsClosed,
                   summary, allResults, sent>>
    /\ UNCHANGED <<dagVars, schedVars>>
    /\ UNCHANGED auxVars

\* worker: "if !ok { return }": the jobs channel is closed and drained
WorkerExit(w) ==
    /\ pc = "running"
    /\ workers[w].st = "idle"
    /\ jobs = <<>>
    /\ jobsClosed
    /\ workers' = [workers EXCEPT ![w].st = "exited"]
    /\ UNCHANGED <<config, pc, producer, jobs, jobsClosed, results, resultsClosed,
                   summary, allResults, sent>>
    /\ UNCHANGED <<dagVars, schedVars>>
    /\ UNCHANGED auxVars

\* "wg.Wait(); close(results)"
CloseResults ==
    /\ pc = "running"
    /\ ~resultsClosed
    /\ \A w \in DOMAIN workers : workers[w].st = "exited"
    /\ resultsClosed' = TRUE
    /\ UNCHANGED <<config, pc, producer, jobs, jobsClosed, workers, results,
                   summary, allResults, sent>>
    /\ UNCHANGED <<dagVars, schedVars>>
    /\ UNCHANGED auxVars

\* collectResults: one round of "for result := range results"
CollectResult ==
    /\ pc = "running"
    /\ results # <<>>
    /\ allResults' = Append(allResults, Head(results))
    /\ summary' = CollectOne(summary, Head(results))
    /\ results' = Tail(results)
    /\ UNCHANGED <<config, pc, producer, jobs, jobsClosed, workers, resultsClosed, sent>>
    /\ UNCHANGED <<dagVars, schedVars>>
    /\ UNCHANGED auxVars

\* collectResults: the range loop ends on the closed, drained channel, the
\* averages and percentiles are computed; Run returns
ReturnSummary ==
    /\ pc = "running"
    /\ results = <<>>
    /\ resultsClosed
    /\ pc' = "done"
    /\ summary' = FinalStats(summary, allResults)
    /\ UNCHANGED <<config, producer, jobs, jobsClosed, workers, results,
                   resultsClosed, allResults, sent>>
    /\ UNCHANGED <<dagVars, schedVars>>
    /\ UNCHANGED auxVars

Next ==
    \/ Produce
    \/ CloseJobs
    \/ \E w \in DOMAIN workers : WorkerDequeue(w)
    \/ \E w \in DOMAIN workers : WorkerExecute(w)
    \/ \E w \in DOMAIN workers : WorkerDelayDone(w)
    \/ \E w \in DOMAIN workers : WorkerExit(w)
    \/ CloseResults
    \/ CollectResult
    \/ ReturnSummary

Spec == Init /\ [][Next]_vars

(***************************************************************************)
(* pkg/variables/store.go, extractor.go, substitutor.go                    *)
(***************************************************************************)
\* a stored value (interface{}) carries its dynamic type
IntValue(n) == [t |-> "int", v |-> n]
StringValue(s) == [t |-> "string", v |-> s]
BoolValue(b) == [t |-> "bool", v |-> b]
NilValue == [t |-> "nil", v |-> 0]
\* the float64 v.f (one decimal digit f in 0..9; f = 0 is a whole number)
FloatValue(n, f) == [t |-> "float", v |-> n, f |-> f]

\* fmt.Sprintf("%v", val)
Sprintf(val) ==
    CASE val.t = "int" -> ToString(val.v)
      [] val.t = "string" -> val.v
      [] val.t = "bool" -> (IF val.v THEN "true" ELSE "false")
      [] val.t = "float" -> (IF val.f = 0 THEN ToString(val.v)
                             ELSE ToString(val.v) \o "." \o ToString(val.f))
      [] OTHER -> "<nil>"

\* func (s *Store) Set(key string, value interface{})
StoreSet(st, key, value) ==
    [k \in (DOMAIN st) \cup {key} |-> IF k = key THEN value ELSE st[k]]

\* func (s *Store) Get(key string) (interface{}, bool)
StoreGet(st, key) ==
    [val |-> IF key \in DOMAIN st THEN st[key] ELSE NilValue, ok |-> key \in DOMAIN st]

\* func (s *Store) GetString(key string) string
StoreGetString(st, key) ==
    LET r == StoreGet(st, key) IN IF ~r.ok THEN "" ELSE Sprintf(r.val)

\* mutant: a path that is absent from the body yields null, found
extractFromBody_NilWhenAbsent(body, path) ==
    IF body = <<>> \/ path \notin DOMAIN body
    THEN [value |-> NilValue, found |-> TRUE]
    ELSE [value |-> StringValue(body[path].Str), found |-> TRUE]

\* func (e *Extractor) extractFromBody(body []byte, path string) (interface{}, bool)
\* body: the JSON document as the function from its paths to their gjson
\* results [Type, Str, Num, Frac], <<>> for an empty body; a Number is
\* Num.Frac with one decimal digit
extractFromBody(body, path) ==
    IF body = <<>> \/ path \notin DOMAIN body
    THEN [value |-> NilValue, found |-> FALSE]
    ELSE LET result == body[path] IN
         [found |-> TRUE,
          value |-> CASE result.Type = "String" -> StringValue(result.Str)
                      [] result.Type = "Number" ->
                            (IF result.Frac = 0 THEN IntValue(result.Num)
                             ELSE FloatValue(result.Num, result.Frac))
                      [] result.Type = "True" -> BoolValue(TRUE)
                      [] result.Type = "False" -> BoolValue(FALSE)
                      [] result.Type = "Null" -> NilValue
                      [] OTHER -> StringValue(result.Str)]

\* func (e *Extractor) extractFromHeader(headers http.Header, headerName string) (interface{}, bool)
extractFromHeader(headers, headerName) ==
    IF headerName \notin DOMAIN headers \/ headers[headerName] = ""
    THEN [value |-> NilValue, found |-> FALSE]
    ELSE [value |-> StringValue(headers[headerName]), found |-> TRUE]

\* mutant: a rule with an unknown source is passed over
ExtractRule_UnknownIgnored(rule, body, headers, statusCode) ==
    [r |-> [value |-> IntValue(statusCode), found |-> rule.Source = "status"], err |-> ""]

\* the switch on rule.Source of Extract; err is set for an unknown source
ExtractRule(rule, body, headers, statusCode) ==
    CASE rule.Source = "body" ->
            [r |-> extractFromBody(body, rule.Path), err |-> ""]
      [] rule.Source = "header" ->
            [r |-> extractFromHeader(headers, rule.Path), err |-> ""]
      [] rule.Source = "status" ->
            [r |-> [value |-> IntValue(statusCode), found |-> TRUE], err |-> ""]
      [] OTHER ->
            [r |-> [value |-> NilValue, found |-> FALSE], err |-> "unknown source"]

\* func (e *Extractor) Extract(rules, body, headers, statusCode) error:
\* the store after the call and the error; the rules before an unknown
\* source have written already
RECURSIVE ExtractFrom(_, _, _, _, _, _)
ExtractFrom(st, rules, i, body, headers, statusCode) ==
    IF i > Len(rules) THEN [store |-> st, err |-> ""]
    ELSE LET x == ExtractRule(rules[i], body, headers, statusCode) IN
         IF x.err # "" THEN [store |-> st, err |-> x.err]
         ELSE ExtractFrom(IF x.r.found THEN StoreSet(st, rules[i].Name, x.r.value) ELSE st,
                          rules, i + 1, body, headers, statusCode)

\* mutant: an unknown source undoes what the rules before it wrote
Extract_RolledBack(st, rules, body, headers, statusCode) ==
    LET ex == ExtractFrom(st, rules, 1, body, headers, statusCode)
    IN  IF ex.err # "" THEN [store |-> st, err |-> ex.err] ELSE ex

Extract(st, rules, body, headers, statusCode) ==
    ExtractFrom(st, rules, 1, body, headers, statusCode)

\* an input string of Substitute is the sequence of its pieces: literal text
\* and the matches of varPattern, ${name}
Lit(text) == [kind |-> "lit", text |-> text]
Tok(name) == [kind |-> "var", text |-> name]

\* the characters of varPattern, \$\{([a-zA-Z_][a-zA-Z0-9_.]*)\}
NameStart == {"x", "_"}
NameChar == NameStart \cup {"1", "."}

\* the characters of a string, joined
RECURSIVE Join(_)
Join(cs) == IF cs = <<>> THEN "" ELSE Head(cs) \o Join(Tail(cs))

\* the length of the match of varPattern at the start of cs, 0 for none: the
\* name runs up to the first character that cannot belong to it, and that
\* character has to be the closing brace
MatchLen(cs) ==
    IF Len(cs) >= 4 /\ cs[1] = "$" /\ cs[2] = "{" /\ cs[3] \in NameStart
    THEN LET stops == {j \in 4..Len(cs) : cs[j] \notin NameChar} IN
         IF stops = {} THEN 0
         ELSE LET e == CHOOSE j \in stops : \A k \in stops : j <= k IN
              IF cs[e] = "}" THEN e ELSE 0
    ELSE 0

\* ReplaceAllStringFunc walks the string: the leftmost matches of varPattern,
\* not overlapping, and the text between them
RECURSIVE Tokenize(_)
Tokenize(cs) ==
    IF cs = <<>> THEN <<>>
    ELSE IF MatchLen(cs) > 0
         THEN <<Tok(Join(SubSeq(cs, 3, MatchLen(cs) - 1)))>>
                 \o Tokenize(SubSeq(cs, MatchLen(cs) + 1, Len(cs)))
         ELSE <<Lit(cs[1])>> \o Tokenize(Tail(cs))

\* mutant: a match whose variable is absent is replaced by the empty string
SubstituteMatch_EmptyWhenAbsent(st, name) == StoreGetString(st, name)

\* mutant: every match is kept as it stands
SubstituteMatch_Keep(st, name) == "${" \o name \o "}"

\* the callback of ReplaceAllStringFunc: the replacement of one match
SubstituteMatch(st, name) ==
    IF StoreGet(st, name).ok THEN StoreGetString(st, name) ELSE "${" \o name \o "}"

\* func (s *Substitutor) Substitute(input string) string
RECURSIVE Substitute(_, _)
Substitute(st, input) ==
    IF input = <<>> THEN ""
    ELSE (IF Head(input).kind = "lit" THEN Head(input).text
          ELSE SubstituteMatch(st, Head(input).text))
         \o Substitute(st, Tail(input))

\* mutant: the extractor runs whether the request succeeded or not
ExtractStep_Always(st, base, rules, body, headers, statusCode) ==
    LET ex == Extract(st, rules, body, headers, statusCode) IN
    [store |-> ex.store,
     result |-> IF ex.err # ""
                THEN [base EXCEPT !.Success = FALSE, !.Error = "extraction failed"]
                ELSE base]

\* executor, step 7: "if extraction rules are defined and the request
\* succeeded so far, run the Extractor; a per-rule error marks the result
\* failed"
ExtractStep(st, base, rules, body, headers, statusCode) ==
    IF rules # <<>> /\ base.Success
    THEN LET ex == Extract(st, rules, body, headers, statusCode) IN
         [store |-> ex.store,
          result |-> IF ex.err # ""
                     THEN [base EXCEPT !.Success = FALSE, !.Error = "extraction failed"]
                     ELSE base]
    ELSE [store |-> st, result |-> base]

(***************************************************************************)
(* The phase-sequenced scheduler of Engine.Run (run when a test has a      *)
(* depends_on): plan, then per phase skip, dispatch, wait.                 *)
(***************************************************************************)
\* what the server model answers under the scheduler
StatusCreated == 201
DagOutcomes == {StatusOK, StatusCreated, StatusServerError, NoResponse}

\* the extraction rules every test of the run carries: the status code into
\* the variable x
StatusRule == <<[Name |-> "x", Source |-> "status", Path |-> ""]>>
\* the path of every test of the run: /t/${x}
PathTemplate == <<Lit("/t/"), Tok("x")>>

\* the []TestDependency the engine builds of config.Tests for BuildDAG
Dependencies(tests) ==
    [i \in DOMAIN tests |-> [Name |-> tests[i].Name, DependsOn |-> tests[i].DependsOn]]

\* the scheduler is taken when some test declares a dependency
HasDependencies(tests) == \E i \in DOMAIN tests : tests[i].DependsOn # <<>>

\* the test of a name (names are unique in a config that got a plan)
TestIndex(cfg, name) == CHOOSE i \in DOMAIN cfg.Tests : cfg.Tests[i].Name = name

\* the dependencies of test t that are marked failed, by position in depends_on
FailedDepPositions(cfg, t, failed) ==
    {j \in DOMAIN cfg.Tests[t].DependsOn : cfg.Tests[t].DependsOn[j] \in failed}

\* "a test whose dependency failed in an earlier phase is skipped"
ShouldSkip(cfg, t, failed) == FailedDepPositions(cfg, t, failed) # {}

\* mutant: the reason names the last failing dependency
SkipDependency_Last(cfg, t, failed) ==
    cfg.Tests[t].DependsOn[CHOOSE j \in FailedDepPositions(cfg, t, failed) :
                               \A k \in FailedDepPositions(cfg, t, failed) : k <= j]

\* "a reason referencing the first failing dependency"
SkipDependency(cfg, t, failed) ==
    cfg.Tests[t].DependsOn[CHOOSE j \in FailedDepPositions(cfg, t, failed) :
                               \A k \in FailedDepPositions(cfg, t, failed) : j <= k]

\* the TestResult of a skipped job; SkipReason holds the dependency it names
SkippedResult(cfg, t, dep) ==
    [TestName |-> cfg.Tests[t].Name, StatusCode |-> 0, ResponseTime |-> 0,
     Success |-> FALSE, Error |-> "", Skipped |-> TRUE, SkipReason |-> dep]

\* n copies of x
Repeat(x, n) == [i \in 1..n |-> x]

\* the concatenation of f(order[1]), f(order[2]), ...
RECURSIVE FlatMap(_, _)
FlatMap(order, f) ==
    IF order = <<>> THEN <<>> ELSE f[Head(order)] \o FlatMap(Tail(order), f)

\* the orders in which a range over a phase can visit its names
Orders(S) == {o \in [1..Cardinality(S) -> S] : \A i, j \in DOMAIN o : i # j => o[i] # o[j]}

\* mutant: the scheduler advances as soon as the job channel is drained
PhaseFinished_JobsDrained(ws, js) == js = <<>>

\* "wait for workers to finish before advancing"
PhaseFinished(ws, js) == \A w \in DOMAIN ws : ws[w].st = "exited"

\* the counters of a Summary or EndpointSummary for one skipped result
CountSkipped(s) == [s EXCEPT !.TotalRequests = @ + 1, !.SkippedReqs = @ + 1]

\* the aggregator under the scheduler: a skipped result is counted as
\* skipped, any other result goes through the loop body of collectResults
DagCollectOne(sum, result) ==
    IF result.Skipped
    THEN LET key == result.TestName
             eps == IF key \in DOMAIN sum.EndpointResults
                    THEN sum.EndpointResults
                    ELSE [k \in (DOMAIN sum.EndpointResults) \cup {key} |->
                             IF k = key THEN EmptyEndpoint(key) ELSE sum.EndpointResults[k]]
         IN [CountSkipped(sum) EXCEPT
                !.EndpointResults = [eps EXCEPT ![key] = CountSkipped(@)]]
    ELSE CollectOne(sum, result)

\* the Summary of a run the planner refused: the planner's error, no request
PlannerErrorSummary(err) == [EmptySummary EXCEPT !.Errors = Incr(@, err)]

\* the configs of the runs list their tests by name, in alphabetical order
NameRank(n) == CASE n = "A" -> 1 [] n = "B" -> 2 [] OTHER -> 3

\* a worker goroutine of a phase's group before its first job
FreshWorker == [st |-> "idle", job |-> 0, url |-> ""]

\* the config parser hands over one more test of the config
AddConfigTest ==
    /\ pc = "idle"
    /\ dagPc = "input"
    /\ Len(config.Tests) < MaxTests
    /\ \E n \in Names,
          d \in SeqsUpTo(Names, Min(MaxDeps, MaxEdges - EdgeCount(config.Tests))) :
          /\ config.Tests # <<>> =>
                NameRank(config.Tests[Len(config.Tests)].Name) <= NameRank(n)
          /\ config' = [config EXCEPT !.Tests =
                        Append(@, [Name |-> n,
                                   Iterations |-> 0, Data |-> 0, DependsOn |-> d,
                                   ExpectedStatus |-> {StatusOK, StatusCreated},
                                   Extract |-> StatusRule, Path |-> PathTemplate])]
    /\ UNCHANGED <<pc, producer, jobs, jobsClosed, workers, results, resultsClosed,
                   summary, allResults, sent>>
    /\ UNCHANGED <<dagVars, schedVars>>
    /\ UNCHANGED auxVars

\* Engine.Run on a config with dependencies: the plan is built; a planner
\* error aborts the run with the error in the Summary
StartDAGRun ==
    /\ pc = "idle"
    /\ dagPc = "input"
    /\ HasDependencies(config.Tests)
    /\ \E w \in 1..MaxWorkers, it \in 1..MaxIterations :
          /\ Len(config.Tests) * it <= MaxRunJobs
          /\ LET cfg == [config EXCEPT !.workers = w, !.Iterations = it]
                 ts == Dependencies(cfg.Tests)
                 plan == BuildDAG(ts)
             IN /\ config' = cfg
                /\ dagTests' = ts
                /\ dagOut' = plan
                /\ dagPc' = "returned"
                /\ started' = [n \in TestNameSet(ts) |-> 0]
                /\ produced' = [n \in TestNameSet(ts) |-> 0]
                /\ IF plan.err # "none"
                   THEN /\ pc' = "done"
                        /\ summary' = PlannerErrorSummary(plan.err)
                        /\ phase' = 0
                   ELSE /\ pc' = "dispatch"
                        /\ summary' = EmptySummary
                        /\ phase' = 1
    /\ UNCHANGED <<producer, jobs, jobsClosed, workers, results, resultsClosed,
                   allResults, sent, failedTests, store, written>>
    /\ UNCHANGED auxVars

\* one phase is opened: the tests with a failed dependency are skipped and
\* their skipped results emitted, the jobs of the others are submitted to the
\* phase's worker group, and the phase's job channel is closed
Dispatch ==
    /\ pc = "dispatch"
    /\ LET ph == dagOut.Phases[phase]
           skip == {n \in ph : ShouldSkip(config, TestIndex(config, n), failedTests)}
           skipRes == [n \in ph |->
                         IF n \in skip
                         THEN Repeat(SkippedResult(config, TestIndex(config, n),
                                        SkipDependency(config, TestIndex(config, n), failedTests)),
                                     JobsOfTest(config, TestIndex(config, n)))
                         ELSE <<>>]
           newJobs == [n \in ph |->
                         IF n \in skip THEN <<>>
                         ELSE Repeat(TestIndex(config, n), JobsOfTest(config, TestIndex(config, n)))]
       IN \E order \in Orders(ph) :
             /\ results' = results \o FlatMap(order, skipRes)
             /\ jobs' = jobs \o FlatMap(order, newJobs)
             /\ workers' = workers \o
                    Repeat(FreshWorker, Min(WorkerCount(config), Len(FlatMap(order, newJobs))))
             /\ failedTests' = failedTests \cup skip
             /\ produced' = [n \in DOMAIN produced |->
                               IF n \in skip THEN produced[n] + Len(skipRes[n])
                               ELSE produced[n]]
    /\ jobsClosed' = TRUE
    /\ pc' = "wait"
    /\ UNCHANGED <<config, producer, resultsClosed, summary, allResults, sent>>
    /\ UNCHANGED <<dagVars, phase, store, started, written>>
    /\ UNCHANGED auxVars

\* worker of a phase: it takes a job, substitutes the variables of the
\* request from the store and starts the HTTP exchange
DagWorkerDequeue(w) ==
    /\ pc \in {"dispatch", "wait", "drain"}
    /\ workers[w].st = "idle"
    /\ jobs # <<>>
    /\ workers' = [workers EXCEPT ![w] =
                      [st |-> "exec", job |-> Head(jobs),
                       url |-> Substitute(store, config.Tests[Head(jobs)].Path)]]
    /\ jobs' = Tail(jobs)
    /\ started' = [started EXCEPT ![config.Tests[Head(jobs)].Name] = @ + 1]
    /\ UNCHANGED <<config, pc, producer, jobsClosed, results, resultsClosed,
                   summary, allResults, sent>>
    /\ UNCHANGED <<dagVars, phase, failedTests, store, produced, written>>
    /\ UNCHANGED auxVars

\* worker of a phase: the exchange ends; on success the extraction rules
\* write to the store; a failure marks the test failed; the result is sent
DagWorkerExecute(w) ==
    /\ pc \in {"dispatch", "wait", "drain"}
    /\ workers[w].st = "exec"
    /\ \E outcome \in DagOutcomes, rt \in ResponseTimes :
          LET t == workers[w].job
              name == config.Tests[t].Name
              base == executeTest(config, t, outcome, rt)
              ex == ExtractStep(store, base, config.Tests[t].Extract, <<>>, <<>>, outcome)
              result == ex.result
          IN /\ store' = ex.store
             /\ written' = IF base.Success /\ config.Tests[t].Extract = StatusRule
                           THEN [value |-> IntValue(outcome),
                                 phase |-> GetPhaseForTest(dagOut.Phases, name)]
                           ELSE written
             /\ failedTests' = IF result.Success THEN failedTests
                               ELSE failedTests \cup {name}
             /\ produced' = [produced EXCEPT ![name] = @ + 1]
             /\ results' = Append(results, result)
    /\ workers' = [workers EXCEPT ![w].st = "idle"]
    /\ UNCHANGED <<config, pc, producer, jobs, jobsClosed, resultsClosed,
                   summary, allResults, sent>>
    /\ UNCHANGED <<dagVars, phase, started>>
    /\ UNCHANGED auxVars

\* worker of a phase: the phase's job channel is closed and drained
DagWorkerExit(w) ==
    /\ pc \in {"dispatch", "wait", "drain"}
    /\ workers[w].st = "idle"
    /\ jobs = <<>>
    /\ jobsClosed
    /\ workers' = [workers EXCEPT ![w].st = "exited"]
    /\ UNCHANGED <<config, pc, producer, jobs, jobsClosed, results, resultsClosed,
                   summary, allResults, sent>>
    /\ UNCHANGED <<dagVars, schedVars>>
    /\ UNCHANGED auxVars

\* the scheduler has waited for the phase's workers and advances; after the
\* last phase the results channel is closed
PhaseEnd ==
    /\ pc = "wait"
    /\ PhaseFinished(workers, jobs)
    /\ phase' = phase + 1
    /\ pc' = IF phase + 1 > Len(dagOut.Phases) THEN "drain" ELSE "dispatch"
    /\ resultsClosed' = (phase + 1 > Len(dagOut.Phases))
    /\ UNCHANGED <<config, producer, jobs, jobsClosed, workers, results,
                   summary, allResults, sent>>
    /\ UNCHANGED <<dagVars, failedTests, store, started, produced, written>>
    /\ UNCHANGED auxVars

\* the aggregator takes one result
DagCollect ==
    /\ pc \in {"dispatch", "wait", "drain"}
    /\ results # <<>>
    /\ summary' = DagCollectOne(summary, Head(results))
    /\ results' = Tail(results)
    /\ UNCHANGED <<config, pc, producer, jobs, jobsClosed, workers, resultsClosed,
                   allResults, sent>>
    /\ UNCHANGED <<dagVars, schedVars>>
    /\ UNCHANGED auxVars

\* the results channel is closed and drained: Run returns the Summary
DagReturn ==
    /\ pc = "drain"
    /\ results = <<>>
    /\ resultsClosed
    /\ pc' = "done"
    /\ UNCHANGED <<config, producer, jobs, jobsClosed, workers, results,
                   resultsClosed, summary, allResults, sent>>
    /\ UNCHANGED <<dagVars, schedVars>>
    /\ UNCHANGED auxVars

NextDAGRun ==
    \/ AddConfigTest
    \/ StartDAGRun
    \/ Dispatch
    \/ \E w \in DOMAIN workers : DagWorkerDequeue(w)
    \/ \E w \in DOMAIN workers : DagWorkerExecute(w)
    \/ \E w \in DOMAIN workers : DagWorkerExit(w)
    \/ PhaseEnd
    \/ DagCollect
    \/ DagReturn

SpecDAGRun == InitBuildDAG /\ [][NextDAGRun]_vars

(***************************************************************************)
(* Data-driven runs: the scheduler expands the data rows of a test into    *)
(* jobs, a worker loads the row of its job into the store and the executor *)
(* substitutes the request from the store.                                 *)
(***************************************************************************)
\* func (s *Store) SetFromMap(data map[string]interface{})
StoreSetFromMap(st, data) ==
    [k \in (DOMAIN st) \cup (DOMAIN data) |-> IF k \in DOMAIN data THEN data[k] ELSE st[k]]

\* mutant: every string body is substituted as text
SubstituteBodyString_AlwaysString(st, v) == StringValue(Substitute(st, v))

\* json.Marshal of a body value: a string is quoted, a number is not
JsonMarshal(val) ==
    CASE val.t = "int" -> ToString(val.v)
      [] val.t = "string" -> "\"" \o val.v \o "\""
      [] val.t = "bool" -> (IF val.v THEN "true" ELSE "false")
      [] val.t = "float" -> ToString(val.v) \o "." \o ToString(val.f)
      [] OTHER -> "null"

\* the string case of SubstituteBody: a string that is one single reference
\* yields the stored value with its type, any other string is substituted
SubstituteBodyString(st, v) ==
    IF Len(v) = 1 /\ v[1].kind = "var"
    THEN (IF StoreGet(st, v[1].text).ok THEN StoreGet(st, v[1].text).val
          ELSE StringValue("${" \o v[1].text \o "}"))
    ELSE StringValue(Substitute(st, v))

\* func (s *Substitutor) SubstituteBody(body interface{}) interface{}, for a
\* body that is a map of strings
SubstituteBody(st, body) == [k \in DOMAIN body |-> SubstituteBodyString(st, body[k])]

\* the value of the key "name" in data row i
RowValue(i) == "u" \o ToString(i)

\* the first n data rows
DataRows(n) == [i \in 1..n |-> [name |-> StringValue(RowValue(i))]]

\* the row of a job as the worker loads it: every key with the prefix "data."
PrefixedRow(row) == [k \in {"data.name"} |-> row.name]

\* the configs of the data-driven runs: one test with a body that refers to
\* its row, {"name": "${data.name}"}
DataConfigs ==
    {[workers |-> w, Iterations |-> it, Delay |-> 0,
      Tests |-> <<[Name |-> "A", Iterations |-> 0, Data |-> DataRows(n),
                   DependsOn |-> <<>>, ExpectedStatus |-> {StatusOK},
                   Body |-> [name |-> <<Tok("data.name")>>]]>>] :
        w \in 1..MaxWorkers, it \in 1..MaxIterations, n \in 1..MaxRows}

\* the jobs of a test with data rows: iterations x rows
DataJobsOfTest(cfg, t) == EffectiveIterations(cfg, t) * Len(cfg.Tests[t].Data)

InitDataRun ==
    /\ NoSchedule
    /\ NoAux
    /\ dagTests = <<>>
    /\ dagOut = [err |-> "pending", Phases |-> <<>>]
    /\ dagPc = "input"
    /\ config \in DataConfigs
    /\ pc = "running"
    /\ producer = [test |-> 1, i |-> 0, finished |-> FALSE]
    /\ jobs = <<>>
    /\ jobsClosed = FALSE
    /\ workers = [w \in 1..config.workers |-> [st |-> "idle", job |-> 0]]
    /\ results = <<>>
    /\ resultsClosed = FALSE
    /\ summary = EmptySummary
    /\ allResults = <<>>
    /\ sent = [t \in DOMAIN config.Tests |-> 0]

\* the scheduler emits one job per (iteration, row)
DataProduce ==
    /\ pc = "running"
    /\ ~producer.finished
    /\ producer.test \in DOMAIN config.Tests
    /\ Len(jobs) < JobsCap
    /\ jobs' = Append(jobs, [test |-> producer.test,
                             row |-> (producer.i % Len(config.Tests[producer.test].Data)) + 1])
    /\ sent' = [sent EXCEPT ![producer.test] = @ + 1]
    /\ producer' = IF producer.i + 1 < DataJobsOfTest(config, producer.test)
                   THEN [producer EXCEPT !.i = @ + 1]
                   ELSE [producer EXCEPT !.test = @ + 1, !.i = 0]
    /\ UNCHANGED <<config, pc, jobsClosed, workers, results, resultsClosed,
                   summary, allResults>>
    /\ UNCHANGED <<dagVars, schedVars, auxVars>>

\* worker: it takes a job
DataWorkerDequeue(w) ==
    /\ pc = "running"
    /\ workers[w].st = "idle"
    /\ jobs # <<>>
    /\ workers' = [workers EXCEPT ![w] = [st |-> "load", job |-> Head(jobs)]]
    /\ jobs' = Tail(jobs)
    /\ UNCHANGED <<config, pc, producer, jobsClosed, results, resultsClosed,
                   summary, allResults, sent>>
    /\ UNCHANGED <<dagVars, schedVars, auxVars>>

\* worker: "load each row key into the store with the prefix data."
DataWorkerLoad(w) ==
    /\ pc = "running"
    /\ workers[w].st = "load"
    /\ store' = StoreSetFromMap(store,
                    PrefixedRow(config.Tests[workers[w].job.test].Data[workers[w].job.row]))
    /\ workers' = [workers EXCEPT ![w].st = "build"]
    /\ UNCHANGED <<config, pc, producer, jobs, jobsClosed, results, resultsClosed,
                   summary, allResults, sent>>
    /\ UNCHANGED <<dagVars, phase, failedTests, started, produced, written, auxVars>>

\* executor: the body is substituted from the store and the request is issued
DataWorkerSend(w) ==
    /\ pc = "running"
    /\ workers[w].st = "build"
    /\ requests' = Append(requests,
                      SubstituteBody(store, config.Tests[workers[w].job.test].Body))
    /\ workers' = [workers EXCEPT ![w].st = "exec"]
    /\ UNCHANGED <<config, pc, producer, jobs, jobsClosed, results, resultsClosed,
                   summary, allResults, sent>>
    /\ UNCHANGED <<dagVars, schedVars, now, times, pct, lock, clients, linear,
                   callIn, callOut>>

\* executor: the exchange ends and the result is sent
DataWorkerFinish(w) ==
    /\ pc = "running"
    /\ workers[w].st = "exec"
    /\ Len(results) < ResultsCap
    /\ \E outcome \in Outcomes, rt \in ResponseTimes :
          results' = Append(results, executeTest(config, workers[w].job.test, outcome, rt))
    /\ workers' = [workers EXCEPT ![w].st = "idle"]
    /\ UNCHANGED <<config, pc, producer, jobs, jobsClosed, resultsClosed,
                   summary, allResults, sent>>
    /\ UNCHANGED <<dagVars, schedVars, auxVars>>

NextDataRun ==
    \/ DataProduce
    \/ CloseJobs
    \/ \E w \in DOMAIN workers : DataWorkerDequeue(w)
    \/ \E w \in DOMAIN workers : DataWorkerLoad(w)
    \/ \E w \in DOMAIN workers : DataWorkerSend(w)
    \/ \E w \in DOMAIN workers : DataWorkerFinish(w)
    \/ \E w \in DOMAIN workers : WorkerExit(w)
    \/ CloseResults
    \/ CollectResult
    \/ ReturnSummary

SpecDataRun == InitDataRun /\ [][NextDataRun]_vars

(***************************************************************************)
(* SpecPercentile: calculatePercentile applied to every bounded list of    *)
(* response times.                                                         *)
(***************************************************************************)
InitPercentile == InitBuildDAG

\* one more response time on the list
AddTime ==
    /\ Len(times) < MaxTimes
    /\ \E d \in 0..MaxDuration : times' = Append(times, d)
    /\ pct' = <<>>
    /\ UNCHANGED <<dagVars, runVars, schedVars, now, requests, lock, clients, linear,
                   callIn, callOut>>

\* a call of calculatePercentile; it sorts its argument in place
CallPercentile ==
    /\ \E p \in Percentiles :
          pct' = [input |-> times, percentile |-> p,
                  value |-> calculatePercentile(times, p)]
    /\ times' = SortTimes(times)
    /\ UNCHANGED <<dagVars, runVars, schedVars, now, requests, lock, clients, linear,
                   callIn, callOut>>

NextPercentile ==
    \/ AddTime
    \/ CallPercentile

SpecPercentile == InitPercentile /\ [][NextPercentile]_vars

(***************************************************************************)
(* SpecCollect: collectResults fed with every bounded stream of results.   *)
(* One worker stands for the pool: it sends the result of an arbitrary job *)
(* as often as the bound allows and exits; the collector reads the channel *)
(* until it is closed and drained and computes the final statistics.       *)
(***************************************************************************)
MaxResults == 3

CollectConfig ==
    [workers |-> 1, Iterations |-> MaxResults, Delay |-> 0,
     Tests |-> <<[Name |-> "A", Iterations |-> 0, Data |-> 0, DependsOn |-> <<>>,
                  ExpectedStatus |-> {StatusOK}],
                 [Name |-> "B", Iterations |-> 0, Data |-> 0, DependsOn |-> <<>>,
                  ExpectedStatus |-> {StatusOK}]>>]

\* what executeTest can return for a job of test t: a failure to create the
\* request, or a transport error or a response after a positive time
PossibleResults(cfg, t) ==
    {executeTest(cfg, t, NoRequest, 0)}
        \cup {executeTest(cfg, t, outcome, rt) :
                outcome \in {StatusOK, NoResponse}, rt \in 1..MaxDuration}

InitCollect ==
    /\ NoSchedule
    /\ NoAux
    /\ dagTests = <<>>
    /\ dagOut = [err |-> "pending", Phases |-> <<>>]
    /\ dagPc = "input"
    /\ config = CollectConfig
    /\ pc = "running"
    /\ producer = [test |-> Len(config.Tests) + 1, i |-> 0, finished |-> TRUE]
    /\ jobs = <<>>
    /\ jobsClosed = TRUE
    /\ workers = <<[st |-> "idle", job |-> 0]>>
    /\ results = <<>>
    /\ resultsClosed = FALSE
    /\ summary = EmptySummary
    /\ allResults = <<>>
    /\ sent = [t \in DOMAIN config.Tests |-> 0]

\* worker: "result := e.executeTest(job); results <- result"
SendResult(w) ==
    /\ pc = "running"
    /\ workers[w].st = "idle"
    /\ Len(results) + Len(allResults) < MaxResults
    /\ \E t \in DOMAIN config.Tests :
          \E result \in PossibleResults(config, t) :
              /\ results' = Append(results, result)
              /\ sent' = [sent EXCEPT ![t] = @ + 1]
    /\ UNCHANGED <<config, pc, producer, jobs, jobsClosed, workers, resultsClosed,
                   summary, allResults>>
    /\ UNCHANGED <<dagVars, schedVars, auxVars>>

NextCollect ==
    \/ \E w \in DOMAIN workers : SendResult(w)
    \/ \E w \in DOMAIN workers : WorkerExit(w)
    \/ CloseResults
    \/ CollectResult
    \/ ReturnSummary

SpecCollect == InitCollect /\ [][NextCollect]_vars

(***************************************************************************)
(* SpecRuns: every run of the engine, flat or phase-sequenced.             *)
(***************************************************************************)
InitRuns == Init \/ InitBuildDAG

NextRuns == Next \/ NextDAGRun

SpecRuns == InitRuns /\ [][NextRuns]_vars

(***************************************************************************)
(* SpecTimed: duration-based and mixed-mode runs of the flat engine, with  *)
(* a clock.  Time is counted in ticks.  Whatever a goroutine can do        *)
(* without waiting happens before the clock advances; an HTTP exchange     *)
(* takes at least one tick and at most the client timeout, and the server  *)
(* answers 200.  The job channel has MaxBuffered slots in place of the     *)
(* 1000 of the source.                                                     *)
(***************************************************************************)
MaxBuffered == 1
MaxTestDuration == 2
MaxTimeout == 1
MaxTimedTests == 2
MaxTimedIterations == 1

\* func (c *Config) IsDurationBased() bool
IsDurationBased(cfg) == cfg.Duration > 0

\* func (c *Config) HasMixedMode() bool
HasMixedMode(cfg) ==
    /\ cfg.Duration > 0 \/ \E t \in DOMAIN cfg.Tests : cfg.Tests[t].Duration > 0
    /\ cfg.Iterations > 0 \/ \E t \in DOMAIN cfg.Tests : cfg.Tests[t].Iterations > 0

\* generateJobs and generateMixedModeJobs: which producer a test gets
ProducerMode(cfg, t) ==
    IF HasMixedMode(cfg)
    THEN (IF \/ cfg.Tests[t].Duration > 0
             \/ (cfg.Tests[t].Duration = 0 /\ cfg.Duration > 0 /\ cfg.Tests[t].Iterations = 0)
          THEN "duration" ELSE "iteration")
    ELSE IF IsDurationBased(cfg) THEN "duration"
    ELSE "iteration"

\* "testDuration := testCase.Duration; if testDuration == 0 { testDuration =
\* config.Global.Duration }; endTime := startTime.Add(testDuration)", the
\* producers starting at time 0
EndTime(cfg, t) ==
    IF cfg.Tests[t].Duration = 0 THEN cfg.Duration ELSE cfg.Tests[t].Duration

\* Run: "maxDuration", the timeout of the run's context
MaxOf(S) == CHOOSE x \in S : \A y \in S : y <= x
Deadline(cfg) ==
    MaxOf({cfg.Duration} \cup {cfg.Tests[t].Duration : t \in DOMAIN cfg.Tests})

\* "<-ctx.Done()" is ready
CtxDone == now >= Deadline(config)

TimedTestCases ==
    [Name : {"A", "B"}, Iterations : 0..MaxTimedIterations, Duration : 0..MaxTestDuration,
     Data : {0}, DependsOn : {<<>>}, ExpectedStatus : {{StatusOK}}]

\* the configs of the timed runs: validateConfig wants a global duration or
\* global iterations; the mode is duration or mixed; the tests are named A, B
TimedConfigs ==
    {c \in [workers : 1..MaxWorkers, Iterations : 0..MaxTimedIterations,
            Duration : 0..MaxTestDuration, Timeout : 1..MaxTimeout, Delay : {0},
            Tests : UNION {[1..k -> TimedTestCases] : k \in 1..MaxTimedTests}] :
        /\ c.Iterations > 0 \/ c.Duration > 0
        /\ IsDurationBased(c) \/ HasMixedMode(c)
        /\ \A t \in DOMAIN c.Tests : c.Tests[t].Name = (IF t = 1 THEN "A" ELSE "B")}

InitTimed ==
    /\ NoSchedule
    /\ dagTests = <<>>
    /\ dagOut = [err |-> "pending", Phases |-> <<>>]
    /\ dagPc = "input"
    /\ config \in TimedConfigs
    /\ pc = "running"
    /\ producer = [t \in DOMAIN config.Tests |-> [i |-> 0, finished |-> FALSE]]
    /\ jobs = <<>>
    /\ jobsClosed = FALSE
    /\ workers = [w \in 1..WorkerCount(config) |-> [st |-> "idle", job |-> 0, since |-> 0]]
    /\ results = <<>>
    /\ resultsClosed = FALSE
    /\ summary = EmptySummary
    /\ allResults = <<>>
    /\ sent = [t \in DOMAIN config.Tests |-> 0]
    /\ now = 0
    /\ requests = [t \in DOMAIN config.Tests |-> 0]
    /\ times = <<>>
    /\ pct = <<>>
    /\ lock = [writer |-> 0, readers |-> {}]
    /\ clients = <<>>
    /\ linear = <<>>
    /\ callIn = <<>>
    /\ callOut = <<>>

\* a producer can put a job into the channel
CanProduce(t) ==
    /\ ~producer[t].finished
    /\ Len(jobs) < MaxBuffered
    /\ IF ProducerMode(config, t) = "duration"
       THEN now < EndTime(config, t)
       ELSE producer[t].i < EffectiveIterations(config, t)

\* a producer has left its loop
CanFinish(t) ==
    /\ ~producer[t].finished
    /\ IF ProducerMode(config, t) = "duration"
       THEN now >= EndTime(config, t)
       ELSE producer[t].i >= EffectiveIterations(config, t)

\* the producer goroutine of a test: "jobs <- Job{...}"
TimedProduce(t) ==
    /\ pc = "running"
    /\ CanProduce(t)
    /\ jobs' = Append(jobs, t)
    /\ sent' = [sent EXCEPT ![t] = @ + 1]
    /\ producer' = [producer EXCEPT ![t].i = @ + 1]
    /\ UNCHANGED <<config, pc, jobsClosed, workers, results, resultsClosed,
                   summary, allResults>>
    /\ UNCHANGED <<dagVars, schedVars, auxVars>>

\* the producer goroutine of a test: its loop ends, "wg.Done()"
TimedProducerDone(t) ==
    /\ pc = "running"
    /\ CanFinish(t)
    /\ producer' = [producer EXCEPT ![t].finished = TRUE]
    /\ UNCHANGED <<config, pc, jobs, jobsClosed, workers, results, resultsClosed,
                   summary, allResults, sent>>
    /\ UNCHANGED <<dagVars, schedVars, auxVars>>

\* "wg.Wait()" of the generator returns, "defer close(jobs)"
TimedCloseJobs ==
    /\ pc = "running"
    /\ ~jobsClosed
    /\ \A t \in DOMAIN producer : producer[t].finished
    /\ jobsClosed' = TRUE
    /\ UNCHANGED <<config, pc, producer, jobs, workers, results, resultsClosed,
                   summary, allResults, sent>>
    /\ UNCHANGED <<dagVars, schedVars, auxVars>>

\* worker: "case job, ok := <-jobs" with a job; select may take this case
\* also when ctx.Done() is ready; the request is issued
TimedWorkerDequeue(w) ==
    /\ pc = "running"
    /\ workers[w].st = "idle"
    /\ jobs # <<>>
    /\ workers' = [workers EXCEPT ![w] = [st |-> "exec", job |-> Head(jobs), since |-> now]]
    /\ jobs' = Tail(jobs)
    /\ requests' = [requests EXCEPT ![Head(jobs)] = @ + 1]
    /\ UNCHANGED <<config, pc, producer, jobsClosed, results, resultsClosed,
                   summary, allResults, sent>>
    /\ UNCHANGED <<dagVars, schedVars, now, times, pct, lock, clients, linear,
                   callIn, callOut>>

\* worker: "case <-ctx.Done(): return"
TimedWorkerCancel(w) ==
    /\ pc = "running"
    /\ workers[w].st = "idle"
    /\ CtxDone
    /\ workers' = [workers EXCEPT ![w].st = "exited"]
    /\ UNCHANGED <<config, pc, producer, jobs, jobsClosed, results, resultsClosed,
                   summary, allResults, sent>>
    /\ UNCHANGED <<dagVars, schedVars, auxVars>>

\* worker: the exchange ends with a response after a positive time, within
\* the client timeout; "results <- result"
TimedWorkerExecute(w) ==
    /\ pc = "running"
    /\ workers[w].st = "exec"
    /\ now > workers[w].since
    /\ Len(results) < ResultsCap
    /\ LET result == executeTest(config, workers[w].job, StatusOK,
                                 now - workers[w].since) IN
          /\ results' = Append(results, result)
          /\ workers' = [workers EXCEPT ![w].st = AfterJob(config, result)]
    /\ UNCHANGED <<config, pc, producer, jobs, jobsClosed, resultsClosed,
                   summary, allResults, sent>>
    /\ UNCHANGED <<dagVars, schedVars, auxVars>>

\* some goroutine can take a step without waiting
Urgent ==
    \/ \E t \in DOMAIN producer : CanProduce(t) \/ CanFinish(t)
    \/ ~jobsClosed /\ \A t \in DOMAIN producer : producer[t].finished
    \/ \E w \in DOMAIN workers :
          /\ workers[w].st = "idle"
          /\ jobs # <<>> \/ CtxDone \/ jobsClosed
    \/ ~resultsClosed /\ \A w \in DOMAIN workers : workers[w].st = "exited"
    \/ results # <<>>
    \/ resultsClosed

\* the clock advances: nothing can be done without waiting, and no exchange
\* outlives the client timeout
Tick ==
    /\ pc = "running"
    /\ ~Urgent
    /\ \A w \in DOMAIN workers :
          workers[w].st = "exec" => now - workers[w].since < config.Timeout
    /\ now' = now + 1
    /\ UNCHANGED <<dagVars, runVars, schedVars, requests, times, pct, lock, clients, linear,
                   callIn, callOut>>

NextTimed ==
    \/ \E t \in DOMAIN producer : TimedProduce(t)
    \/ \E t \in DOMAIN producer : TimedProducerDone(t)
    \/ TimedCloseJobs
    \/ \E w \in DOMAIN workers : TimedWorkerDequeue(w)
    \/ \E w \in DOMAIN workers : TimedWorkerCancel(w)
    \/ \E w \in DOMAIN workers : TimedWorkerExecute(w)
    \/ \E w \in DOMAIN workers : WorkerExit(w)
    \/ CloseResults
    \/ CollectResult
    \/ ReturnSummary
    \/ Tick

SpecTimed == InitTimed /\ [][NextTimed]_vars

(***************************************************************************)
(* SpecStore: the variable store under concurrent calls.  Every call is    *)
(* a goroutine's walk through the method: it waits for the mutex, runs the *)
(* body (SetFromMap and All one key per step), releases the mutex and      *)
(* returns.  "linear" is the store of a sequential execution in which      *)
(* every call takes effect at once when it gets the mutex; "expect" is     *)
(* what the call returns in that execution.                                *)
(***************************************************************************)
MaxClients == 2
MaxCalls == 2

Keys == {"x", "y"}
Vals == {IntValue(1), IntValue(2)}

\* the calls a client can make
StoreCalls ==
    [name : {"Set"}, key : Keys, val : Vals, data : {<<>>}]
        \cup [name : {"Get", "GetString", "Delete"}, key : Keys, val : {NilValue}, data : {<<>>}]
        \cup [name : {"Clear", "All"}, key : {""}, val : {NilValue}, data : {<<>>}]
        \cup [name : {"SetFromMap"}, key : {""}, val : {NilValue},
              data : UNION {[K -> Vals] : K \in (SUBSET Keys) \ {{}}}]

NoCall == [name |-> "", key |-> "", val |-> NilValue, data |-> <<>>]

\* what a call returns: (interface{}, bool) of Get, the string of GetString,
\* the map of All; the other calls return nothing
NoReturn == [val |-> NilValue, ok |-> FALSE, str |-> "", all |-> <<>>]

IsWrite(call) == call.name \in {"Set", "Delete", "Clear", "SetFromMap"}

\* func (s *Store) Delete(key string)
StoreDelete(st, key) == [k \in (DOMAIN st) \ {key} |-> st[k]]

\* func (s *Store) Clear()
StoreClear(st) == <<>>

\* the sequential meaning of a call: the store after it
SeqApply(call, st) ==
    CASE call.name = "Set" ->
            [k \in (DOMAIN st) \cup {call.key} |-> IF k = call.key THEN call.val ELSE st[k]]
      [] call.name = "SetFromMap" ->
            [k \in (DOMAIN st) \cup (DOMAIN call.data) |->
                IF k \in DOMAIN call.data THEN call.data[k] ELSE st[k]]
      [] call.name = "Delete" -> [k \in (DOMAIN st) \ {call.key} |-> st[k]]
      [] call.name = "Clear" -> <<>>
      [] OTHER -> st

\* the sequential meaning of a call: what it returns
SeqReturn(call, st) ==
    CASE call.name = "Get" ->
            [NoReturn EXCEPT !.ok = call.key \in DOMAIN st,
                             !.val = IF call.key \in DOMAIN st THEN st[call.key] ELSE NilValue]
      [] call.name = "GetString" ->
            [NoReturn EXCEPT !.str = IF call.key \in DOMAIN st
                                     THEN Sprintf(st[call.key]) ELSE ""]
      [] call.name = "All" -> [NoReturn EXCEPT !.all = st]
      [] OTHER -> NoReturn

\* mutant: a reader does not wait for the writer
CanRLock_Always(l) == TRUE

\* s.mu.RLock() can be passed: no goroutine holds the write lock
CanRLock(l) == l.writer = 0

\* s.mu.Lock() can be passed: no goroutine holds the lock in either way
CanLock(l) == l.writer = 0 /\ l.readers = {}

IdleClient(n) ==
    [call |-> NoCall, pc |-> "idle", todo |-> {}, ret |-> NoReturn,
     expect |-> NoReturn, calls |-> n]

InitStore ==
    /\ NoRun
    /\ NoSchedule
    /\ dagTests = <<>>
    /\ dagOut = [err |-> "pending", Phases |-> <<>>]
    /\ dagPc = "input"
    /\ now = 0
    /\ requests = <<>>
    /\ times = <<>>
    /\ pct = <<>>
    /\ lock = [writer |-> 0, readers |-> {}]
    /\ clients = [c \in 1..MaxClients |-> IdleClient(0)]
    /\ linear = <<>>
    /\ callIn = <<>>
    /\ callOut = <<>>

StoreFrame == UNCHANGED <<dagVars, runVars, phase, failedTests, started, produced,
                          written, now, requests, times, pct, callIn, callOut>>

\* a goroutine calls a method of the store
StoreCall(c) ==
    /\ clients[c].pc = "idle"
    /\ clients[c].calls < MaxCalls
    /\ \E call \in StoreCalls :
          clients' = [clients EXCEPT ![c].call = call, ![c].pc = "wait"]
    /\ UNCHANGED <<store, lock, linear>>
    /\ StoreFrame

\* "s.mu.Lock()" or "s.mu.RLock()" returns
StoreAcquire(c) ==
    /\ clients[c].pc = "wait"
    /\ IF IsWrite(clients[c].call)
       THEN /\ CanLock(lock)
            /\ lock' = [lock EXCEPT !.writer = c]
       ELSE /\ CanRLock(lock)
            /\ lock' = [lock EXCEPT !.readers = @ \cup {c}]
    /\ linear' = SeqApply(clients[c].call, linear)
    /\ clients' = [clients EXCEPT
                      ![c].pc = "in",
                      ![c].expect = SeqReturn(clients[c].call, linear),
                      ![c].todo = CASE clients[c].call.name = "SetFromMap" ->
                                         DOMAIN clients[c].call.data
                                    [] clients[c].call.name = "All" -> DOMAIN store
                                    [] OTHER -> {}]
    /\ UNCHANGED store
    /\ StoreFrame

\* the body of Set, Get, GetString (its Get), Delete and Clear
StoreBody(c) ==
    /\ clients[c].pc = "in"
    /\ clients[c].call.name \in {"Set", "Get", "GetString", "Delete", "Clear"}
    /\ store' = CASE clients[c].call.name = "Set" ->
                        StoreSet(store, clients[c].call.key, clients[c].call.val)
                  [] clients[c].call.name = "Delete" ->
                        StoreDelete(store, clients[c].call.key)
                  [] clients[c].call.name = "Clear" -> StoreClear(store)
                  [] OTHER -> store
    /\ clients' = [clients EXCEPT
                      ![c].pc = "out",
                      ![c].ret = IF clients[c].call.name \in {"Get", "GetString"}
                                 THEN [NoReturn EXCEPT
                                         !.val = StoreGet(store, clients[c].call.key).val,
                                         !.ok = StoreGet(store, clients[c].call.key).ok]
                                 ELSE NoReturn]
    /\ UNCHANGED <<lock, linear>>
    /\ StoreFrame

\* SetFromMap: one round of "for k, v := range data { s.variables[k] = v }"
StoreSetFromMapStep(c) ==
    /\ clients[c].pc = "in"
    /\ clients[c].call.name = "SetFromMap"
    /\ \E k \in clients[c].todo :
          /\ store' = StoreSet(store, k, clients[c].call.data[k])
          /\ clients' = [clients EXCEPT
                            ![c].todo = @ \ {k},
                            ![c].pc = IF clients[c].todo = {k} THEN "out" ELSE "in"]
    /\ UNCHANGED <<lock, linear>>
    /\ StoreFrame

\* All: one round of "for k, v := range s.variables { result[k] = v }", or
\* the end of the loop
StoreAllStep(c) ==
    /\ clients[c].pc = "in"
    /\ clients[c].call.name = "All"
    /\ LET left == clients[c].todo \cap DOMAIN store IN
       IF left = {}
       THEN clients' = [clients EXCEPT ![c].pc = "out", ![c].todo = {}]
       ELSE \E k \in left :
               clients' = [clients EXCEPT
                              ![c].todo = @ \ {k},
                              ![c].ret.all = StoreSet(@, k, store[k])]
    /\ UNCHANGED <<store, lock, linear>>
    /\ StoreFrame

\* the deferred Unlock or RUnlock; GetString formats what its Get returned
StoreRelease(c) ==
    /\ clients[c].pc = "out"
    /\ lock' = IF IsWrite(clients[c].call)
               THEN [lock EXCEPT !.writer = 0]
               ELSE [lock EXCEPT !.readers = @ \ {c}]
    /\ clients' = [clients EXCEPT
                      ![c].pc = "ret",
                      ![c].ret = IF clients[c].call.name = "GetString"
                                 THEN [NoReturn EXCEPT
                                         !.str = IF clients[c].ret.ok
                                                 THEN Sprintf(clients[c].ret.val) ELSE ""]
                                 ELSE @]
    /\ UNCHANGED <<store, linear>>
    /\ StoreFrame

\* the caller has the return value and goes on
StoreReturn(c) ==
    /\ clients[c].pc = "ret"
    /\ clients' = [clients EXCEPT ![c] = IdleClient(clients[c].calls + 1)]
    /\ UNCHANGED <<store, lock, linear>>
    /\ StoreFrame

NextStore ==
    \E c \in DOMAIN clients :
        \/ StoreCall(c)
        \/ StoreAcquire(c)
        \/ StoreBody(c)
        \/ StoreSetFromMapStep(c)
        \/ StoreAllStep(c)
        \/ StoreRelease(c)
        \/ StoreReturn(c)

SpecStore == InitStore /\ [][NextStore]_vars

(***************************************************************************)
(* SpecSubstitute and SpecExtract: Substitute and SubstituteBody, Extract   *)
(* and the executor's extraction step, applied to every bounded store and  *)
(* argument.  The store is filled first, then one call is made.            *)
(***************************************************************************)
MaxChars == 5
MaxRules == 3
MaxExecutorRules == 2

VarKeys == {"x", "x1"}
VarValues == {IntValue(7), StringValue("s"), NilValue}
Alphabet == {"$", "{", "}", "x", "1"}

InitVariables == InitBuildDAG

\* a variable is stored before the call
VarSet ==
    /\ callIn = <<>>
    /\ \E k \in VarKeys, v \in VarValues : store' = StoreSet(store, k, v)
    /\ UNCHANGED <<dagVars, runVars, phase, failedTests, started, produced, written,
                   now, requests, times, pct, lock, clients, linear, callIn, callOut>>

\* sub.Substitute(input)
CallSubstitute ==
    /\ callIn = <<>>
    /\ \E cs \in SeqsUpTo(Alphabet, MaxChars) :
          /\ callIn' = [fn |-> "Substitute", chars |-> cs]
          /\ callOut' = [str |-> Substitute(store, Tokenize(cs))]
    /\ UNCHANGED <<dagVars, runVars, schedVars, now, requests, times, pct, lock,
                   clients, linear>>

\* sub.SubstituteBody(body) for a body that is a string
CallSubstituteBody ==
    /\ callIn = <<>>
    /\ \E cs \in SeqsUpTo(Alphabet, MaxChars) :
          /\ callIn' = [fn |-> "SubstituteBody", chars |-> cs]
          /\ callOut' = [val |-> SubstituteBodyString(store, Tokenize(cs)),
                         json |-> JsonMarshal(SubstituteBodyString(store, Tokenize(cs)))]
    /\ UNCHANGED <<dagVars, runVars, schedVars, now, requests, times, pct, lock,
                   clients, linear>>

NextSubstitute ==
    \/ VarSet
    \/ CallSubstitute
    \/ CallSubstituteBody

SpecSubstitute == InitVariables /\ [][NextSubstitute]_vars

\* the arguments of Extract: rules naming a path that is in the body and in
\* the headers ("id") or is not ("none"), with a source that may be unknown
ExtractionRules ==
    [Name : VarKeys, Source : {"body", "header", "status", "cookie"}, Path : {"id", "none"}]
Bodies == {<<>>, [id |-> [Type |-> "Number", Str |-> "5", Num |-> 5, Frac |-> 0]]}
Headers == {<<>>, [id |-> "h", none |-> ""]}

\* e.Extract(rules, body, headers, statusCode)
CallExtract ==
    /\ callIn = <<>>
    /\ \E rules \in SeqsUpTo(ExtractionRules, MaxRules), body \in Bodies, headers \in Headers :
          LET ex == Extract(store, rules, body, headers, StatusOK) IN
          /\ callIn' = [fn |-> "Extract", rules |-> rules, body |-> body,
                        headers |-> headers, statusCode |-> StatusOK, before |-> store]
          /\ callOut' = [err |-> ex.err]
          /\ store' = ex.store
    /\ UNCHANGED <<dagVars, runVars, phase, failedTests, started, produced, written,
                   now, requests, times, pct, lock, clients, linear>>

\* the executor's steps 4 to 7 for a job of a test with extraction rules: the
\* exchange ends with a status or without response, success is determined,
\* the extraction step follows
CallExecutor ==
    /\ callIn = <<>>
    /\ \E rules \in SeqsUpTo(ExtractionRules, MaxExecutorRules), body \in Bodies,
          headers \in Headers, outcome \in Outcomes :
          LET base == executeTest(CollectConfig, 1, outcome, 1)
              ex == ExtractStep(store, base, rules, body, headers, outcome)
          IN /\ callIn' = [fn |-> "Executor", rules |-> rules, body |-> body,
                           headers |-> headers, statusCode |-> outcome, before |-> store]
             /\ callOut' = [result |-> ex.result]
             /\ store' = ex.store
    /\ UNCHANGED <<dagVars, runVars, phase, failedTests, started, produced, written,
                   now, requests, times, pct, lock, clients, linear>>

NextExtract ==
    \/ VarSet
    \/ CallExtract
    \/ CallExecutor

SpecExtract == InitVariables /\ [][NextExtract]_vars

(***************************************************************************)
(* pkg/assertion: the evaluation of one json_path assertion against a      *)
(* response body.  A body is its length, whether gjson accepts it, and the *)
(* gjson value found at each path of the document.                         *)
(***************************************************************************)

\* the characters of the strings that occur in the assertions under study
CharsOf(s) ==
    CASE s = "" -> <<>>
      [] s = "a" -> <<"a">>
      [] s = "ab" -> <<"a", "b">>
      [] s = "b" -> <<"b">>
      [] s = "1" -> <<"1">>
      [] s = "2" -> <<"2">>
      [] s = "true" -> <<"t", "r", "u", "e">>
      [] s = "false" -> <<"f", "a", "l", "s", "e">>
      [] OTHER -> <<"<", "n", "i", "l", ">">>

\* strings.HasPrefix
HasPrefix(s, prefix) ==
    /\ Len(prefix) <= Len(s)
    /\ SubSeq(s, 1, Len(prefix)) = prefix

\* strings.HasSuffix
HasSuffix(s, suffix) ==
    /\ Len(suffix) <= Len(s)
    /\ SubSeq(s, Len(s) - Len(suffix) + 1, Len(s)) = suffix

\* strings.Contains
Contains(s, substr) ==
    \E i \in 0..(Len(s) - Len(substr)) : SubSeq(s, i + 1, i + Len(substr)) = substr

\* func toFloat64(v interface{}) (float64, bool)
toFloat64(v) ==
    IF v.t = "float" THEN [ok |-> TRUE, tenths |-> v.v * 10 + v.f]
    ELSE IF v.t = "int" THEN [ok |-> TRUE, tenths |-> v.v * 10]
    ELSE [ok |-> FALSE, tenths |-> 0]

\* func (e *Evaluator) equals(actual, expected interface{}) bool
equals(actual, expected) ==
    IF toFloat64(actual).ok /\ toFloat64(expected).ok
    THEN toFloat64(actual).tenths = toFloat64(expected).tenths
    ELSE IF actual.t = "bool" /\ expected.t = "bool"
    THEN actual.v = expected.v
    ELSE Sprintf(actual) = Sprintf(expected)

\* greaterThan, greaterThanOrEqual, lessThan, lessThanOrEqual: an error
\* unless both sides are numbers
ordered(operator, actual, expected) ==
    LET a == toFloat64(actual)
        b == toFloat64(expected)
    IN  IF ~a.ok \/ ~b.ok
        THEN [passed |-> FALSE, err |-> "cannot compare non-numeric values"]
        ELSE [passed |-> CASE operator = "gt" -> a.tenths > b.tenths
                           [] operator = "gte" -> a.tenths >= b.tenths
                           [] operator = "lt" -> a.tenths < b.tenths
                           [] OTHER -> a.tenths <= b.tenths,
              err |-> "none"]

\* func (e *Evaluator) compare(operator string, actual, expected interface{}) (bool, error)
compare(operator, actual, expected) ==
    LET as == CharsOf(Sprintf(actual))
        es == CharsOf(Sprintf(expected))
    IN  CASE operator = "eq" -> [passed |-> equals(actual, expected), err |-> "none"]
          [] operator = "neq" -> [passed |-> ~equals(actual, expected), err |-> "none"]
          [] operator \in {"gt", "gte", "lt", "lte"} -> ordered(operator, actual, expected)
          [] operator = "contains" -> [passed |-> Contains(as, es), err |-> "none"]
          [] operator = "starts_with" -> [passed |-> HasPrefix(as, es), err |-> "none"]
          [] operator = "ends_with" -> [passed |-> HasSuffix(as, es), err |-> "none"]
          [] OTHER -> [passed |-> FALSE, err |-> "unknown operator"]

\* the value of a gjson result as evaluateJSONPath reads it
ActualOf(value) ==
    CASE value.Type = "String" -> StringValue(value.Str)
      [] value.Type = "Number" -> FloatValue(value.Num, value.Frac)
      [] value.Type = "True" -> BoolValue(TRUE)
      [] value.Type = "False" -> BoolValue(FALSE)
      [] OTHER -> NilValue

AssertionResult(assertion, passed, message, actual) ==
    [Assertion |-> assertion, Passed |-> passed, Message |-> message,
     ActualValue |-> actual]

\* func (e *Evaluator) evaluateJSONPath(assertion models.Assertion, ctx *Context) Result
evaluateJSONPath(assertion, body) ==
    LET exists == assertion.Target \in DOMAIN body.Doc
        actualValue == ActualOf(body.Doc[assertion.Target])
        cmp == compare(assertion.Operator, actualValue, assertion.Value)
    IN  IF body.Len = 0
        THEN AssertionResult(assertion, FALSE, "empty response body", NilValue)
        ELSE IF ~body.Valid
        THEN AssertionResult(assertion, FALSE, "invalid JSON in response body", NilValue)
        ELSE IF assertion.Operator = "exists"
        THEN AssertionResult(assertion, exists,
                 IF exists THEN "" ELSE "path not found in response", BoolValue(exists))
        ELSE IF assertion.Operator = "not_exists"
        THEN AssertionResult(assertion, ~exists,
                 IF exists THEN "path exists but should not" ELSE "", BoolValue(exists))
        ELSE IF ~exists
        THEN AssertionResult(assertion, FALSE, "path not found in response", NilValue)
        ELSE IF cmp.err # "none"
        THEN AssertionResult(assertion, FALSE, cmp.err, actualValue)
        ELSE AssertionResult(assertion, cmp.passed,
                 IF cmp.passed THEN "" ELSE "assertion failed", actualValue)

(***************************************************************************)
(* SpecAssertion: one json_path assertion is evaluated against one body.   *)
(***************************************************************************)

Operators ==
    {"eq", "neq", "gt", "gte", "lt", "lte", "contains", "starts_with",
     "ends_with", "exists", "not_exists", "almost"}

JSONPathAssertions ==
    [Type : {"json_path"}, Target : {"id", "name", "none"}, Operator : Operators,
     Value : {FloatValue(1, 0), IntValue(2), StringValue("a"), StringValue("1"),
              BoolValue(TRUE)}]

EmptyBody == [Len |-> 0, Valid |-> FALSE, Doc |-> <<>>]
InvalidBody == [Len |-> 1, Valid |-> FALSE, Doc |-> <<>>]
DocBody ==
    [Len |-> 2, Valid |-> TRUE,
     Doc |-> [id |-> [Type |-> "Number", Str |-> "1", Num |-> 1, Frac |-> 0],
              name |-> [Type |-> "String", Str |-> "ab", Num |-> 0, Frac |-> 0]]]

ResponseBodies == {EmptyBody, InvalidBody, DocBody}

CallEvaluateJSONPath ==
    /\ callIn = <<>>
    /\ \E assertion \in JSONPathAssertions, body \in ResponseBodies :
          /\ callIn' = [fn |-> "evaluateJSONPath", assertion |-> assertion, body |-> body]
          /\ callOut' = evaluateJSONPath(assertion, body)
    /\ UNCHANGED <<dagTests, dagOut, dagPc, config, pc, producer, jobs, jobsClosed,
                   workers, results, resultsClosed, summary, allResults, sent, phase,
                   failedTests, store, started, produced, written, now, requests,
                   times, pct, lock, clients, linear>>

NextAssertion == CallEvaluateJSONPath

SpecAssertion == InitVariables /\ [][NextAssertion]_vars

(***************************************************************************)
(* pkg/comparison: the tap-compare evaluator.  A JSON value is a tree: a   *)
(* number, a string, null, an object (a function from keys to values) or  *)
(* an array.  A path is the sequence of the parts of its dotted form.      *)
(***************************************************************************)

JNum(n) == [k |-> "num", n |-> n]
JStr(s) == [k |-> "str", s |-> s]
JNull == [k |-> "null"]
JObj(m) == [k |-> "obj", m |-> m]
JArr(a) == [k |-> "arr", a |-> a]

\* gjson.GetBytes(body, path) on a valid document
RECURSIVE GetBytes(_, _)
GetBytes(value, path) ==
    IF path = <<>> THEN [Exists |-> TRUE, Val |-> value]
    ELSE IF value.k = "obj" /\ Head(path) \in DOMAIN value.m
    THEN GetBytes(value.m[Head(path)], Tail(path))
    ELSE [Exists |-> FALSE, Val |-> JNull]

\* gjson Result.Float(): the number, 0 for what is not a number
ResultFloat(value) == IF value.k = "num" THEN value.n ELSE 0

\* mutant: no path is ignored
isIgnored_Never(ignoreFields, path) == FALSE

\* func (e *Evaluator) isIgnored(path string) bool
isIgnored(ignoreFields, path) ==
    /\ path # <<>>
    /\ \E i \in 1..Len(path) : SubSeq(path, 1, i) \in ignoreFields

FieldDiff(path, diffType, primaryData, compareData) ==
    [Path |-> path, DiffType |-> diffType, PrimaryValue |-> primaryData,
     CompareValue |-> compareData]

\* fmt.Sprintf("%s[%d]", path, i): the index is written behind the last part
ElemPath(path, i) ==
    LET suffix == "[" \o ToString(i) \o "]"
    IN  IF path = <<>> THEN <<suffix>>
        ELSE [path EXCEPT ![Len(path)] = @ \o suffix]

\* func (e *Evaluator) compareValues(primary, compare interface{}, path string) []FieldDiff
\* e is the evaluator: its ignoreFields and its mode
\* (the order of the diffs follows Go's map iteration: the list is kept as a set)
RECURSIVE compareValues(_, _, _, _)
compareValues(e, primaryData, compareData, path) ==
    IF isIgnored(e.ignoreFields, path) THEN {}
    ELSE IF primaryData.k = "null" /\ compareData.k = "null" THEN {}
    ELSE IF primaryData.k = "null" THEN {FieldDiff(path, "extra", JNull, compareData)}
    ELSE IF compareData.k = "null" THEN {FieldDiff(path, "missing", primaryData, JNull)}
    ELSE IF primaryData.k # compareData.k
    THEN {FieldDiff(path, "type_mismatch", primaryData, compareData)}
    ELSE IF primaryData.k = "obj"
    THEN LET pKeys == DOMAIN primaryData.m
             cKeys == DOMAIN compareData.m
         IN  UNION {compareValues(e, primaryData.m[key], compareData.m[key],
                                  Append(path, key)) : key \in pKeys \cap cKeys}
             \cup {FieldDiff(Append(path, key), "missing", primaryData.m[key], JNull) :
                     key \in {x \in pKeys \ cKeys :
                                ~isIgnored(e.ignoreFields, Append(path, x))}}
             \cup {FieldDiff(Append(path, key), "extra", JNull, compareData.m[key]) :
                     key \in {x \in cKeys \ pKeys :
                                ~isIgnored(e.ignoreFields, Append(path, x))}}
    ELSE IF primaryData.k = "arr"
    THEN LET pVal == primaryData.a
             cVal == compareData.a
             maxLen == IF Len(cVal) > Len(pVal) THEN Len(cVal) ELSE Len(pVal)
         IN  IF e.mode = "structural"
             THEN (IF Len(pVal) > 0 /\ Len(cVal) > 0
                   THEN compareValues(e, pVal[1], cVal[1], ElemPath(path, 0))
                   ELSE {})
             ELSE UNION {IF i > Len(pVal)
                         THEN {FieldDiff(ElemPath(path, i - 1), "extra", JNull, cVal[i])}
                         ELSE IF i > Len(cVal)
                         THEN {FieldDiff(ElemPath(path, i - 1), "missing", pVal[i], JNull)}
                         ELSE compareValues(e, pVal[i], cVal[i], ElemPath(path, i - 1)) :
                            i \in 1..maxLen}
    ELSE IF primaryData # compareData
    THEN {FieldDiff(path, "value_mismatch", primaryData, compareData)}
    ELSE {}

\* func (e *Evaluator) compareJSONBodies(primary, compare []byte, basePath string) []FieldDiff
compareJSONBodies(e, primaryData, compareData) ==
    IF ~primaryData.Valid THEN {FieldDiff(<<>>, "type_mismatch", JNull, JNull)}
    ELSE IF ~compareData.Valid THEN {FieldDiff(<<>>, "type_mismatch", JNull, JNull)}
    ELSE compareValues(e, primaryData.Root, compareData.Root, <<>>)

\* func (e *Evaluator) parseTolerance(val interface{}) toleranceValue
\* (values in hundredths; a string is the number fmt.Sscanf reads from it and
\* whether it ends with "%")
parseTolerance(val) ==
    CASE val.t = "float" ->
            [value |-> val.h, isPercentage |-> val.h > 0 /\ val.h < 100]
      [] val.t = "int" -> [value |-> val.v * 100, isPercentage |-> FALSE]
      [] val.t = "string" ->
            (IF val.percent THEN [value |-> val.h \div 100, isPercentage |-> TRUE]
             ELSE [value |-> val.h, isPercentage |-> FALSE])
      [] OTHER -> [value |-> 0, isPercentage |-> FALSE]

AbsInt(n) == IF n < 0 THEN 0 - n ELSE n

CompareAssertionResult(assertion, passed, message) ==
    [Type |-> assertion.Type, Target |-> assertion.Target, Passed |-> passed,
     Message |-> message]

\* func (e *Evaluator) evaluateFieldMatch(assertion models.CompareAssertion, ctx *Context) AssertionResult
\* (the assertions under study carry no operator, which is the case "eq")
evaluateFieldMatch(assertion, ctx) ==
    LET primaryVal == GetBytes(ctx.PrimaryBody.Root, assertion.Target)
        compareVal == GetBytes(ctx.CompareBody.Root, assertion.Target)
        passed == primaryVal.Val = compareVal.Val
    IN  IF ~primaryVal.Exists /\ ~compareVal.Exists
        THEN CompareAssertionResult(assertion, TRUE, "field does not exist in either response")
        ELSE IF ~primaryVal.Exists
        THEN CompareAssertionResult(assertion, FALSE, "field missing in primary response")
        ELSE IF ~compareVal.Exists
        THEN CompareAssertionResult(assertion, FALSE, "field missing in compare response")
        ELSE CompareAssertionResult(assertion, passed,
                 IF passed THEN "" ELSE "field mismatch")

\* func (e *Evaluator) evaluateFieldTolerance(assertion models.CompareAssertion, ctx *Context) AssertionResult
\* diff <= tolerance.value, both sides multiplied by 100 and by |primaryNum|
evaluateFieldTolerance(assertion, ctx) ==
    LET primaryVal == GetBytes(ctx.PrimaryBody.Root, assertion.Target)
        compareVal == GetBytes(ctx.CompareBody.Root, assertion.Target)
        primaryNum == ResultFloat(primaryVal.Val)
        compareNum == ResultFloat(compareVal.Val)
        tolerance == parseTolerance(assertion.Tolerance)
        passed ==
            IF tolerance.isPercentage
            THEN (IF primaryNum = 0
                  THEN 100 * AbsInt(compareNum) <= tolerance.value
                  ELSE 100 * AbsInt(compareNum - primaryNum)
                          <= tolerance.value * AbsInt(primaryNum))
            ELSE 100 * AbsInt(compareNum - primaryNum) <= tolerance.value
    IN  IF ~primaryVal.Exists \/ ~compareVal.Exists
        THEN CompareAssertionResult(assertion, FALSE, "field missing in one or both responses")
        ELSE CompareAssertionResult(assertion, passed,
                 IF passed THEN "" ELSE "field exceeds tolerance")

\* func (e *Evaluator) evaluateStatusMatch(ctx *Context) AssertionResult
evaluateStatusMatch(assertion, ctx) ==
    LET passed == ctx.PrimaryStatusCode = ctx.CompareStatusCode
    IN  [Type |-> "status_match", Target |-> <<>>, Passed |-> passed,
         Message |-> IF passed THEN "" ELSE "status mismatch"]

\* func (e *Evaluator) evaluateAssertion(assertion models.CompareAssertion, ctx *Context) AssertionResult
evaluateAssertion(assertion, ctx) ==
    CASE assertion.Type = "field_match" -> evaluateFieldMatch(assertion, ctx)
      [] assertion.Type = "field_tolerance" -> evaluateFieldTolerance(assertion, ctx)
      [] assertion.Type = "status_match" -> evaluateStatusMatch(assertion, ctx)
      [] OTHER -> CompareAssertionResult(assertion, FALSE, "unknown comparison type")

\* func (e *Evaluator) Compare(ctx *Context, assertions []models.CompareAssertion) *Result
Compare(e, ctx, assertions) ==
    LET statusMatch == ctx.PrimaryStatusCode = ctx.CompareStatusCode
        statusDiffs ==
            IF statusMatch THEN {}
            ELSE {FieldDiff(<<"_status_code">>, "value_mismatch",
                            JNum(ctx.PrimaryStatusCode), JNum(ctx.CompareStatusCode))}
        diffs == compareJSONBodies(e, ctx.PrimaryBody, ctx.CompareBody)
        ars == [i \in 1..Len(assertions) |-> evaluateAssertion(assertions[i], ctx)]
    IN  IF Len(assertions) = 0
        THEN [Success |-> statusMatch /\ diffs = {}, StatusMatch |-> statusMatch,
              FieldDiffs |-> statusDiffs \cup diffs, AssertionResults |-> <<>>]
        ELSE [Success |-> statusMatch /\ \A i \in 1..Len(ars) : ars[i].Passed,
              StatusMatch |-> statusMatch,
              FieldDiffs |-> statusDiffs, AssertionResults |-> ars]

(***************************************************************************)
(* SpecCompare: one call of Compare on two responses.                      *)
(***************************************************************************)

MaxAssertions == 2

JSONBody(root) == [Valid |-> TRUE, Root |-> root]
InvalidJSON == [Valid |-> FALSE, Root |-> JNull]

CompareBodies ==
    {JSONBody(JObj([value |-> JNum(100)])),
     JSONBody(JObj([value |-> JNum(105)])),
     JSONBody(JObj([value |-> JNum(0)])),
     JSONBody(JObj([value |-> JNum(100), meta |-> JObj([ts |-> JNum(1)])])),
     JSONBody(JObj([value |-> JNum(100), meta |-> JObj([ts |-> JStr("a")])])),
     JSONBody(JObj(<<>>)),
     JSONBody(JObj([value |-> JNull])),
     JSONBody(JObj([items |-> JArr(<<JNum(1), JNum(2)>>)])),
     JSONBody(JObj([items |-> JArr(<<JNum(1), JNum(3)>>)])),
     JSONBody(JObj([items |-> JArr(<<JNum(1)>>)])),
     InvalidJSON}

Tolerances ==
    {[t |-> "float", h |-> 2], [t |-> "float", h |-> 10], [t |-> "float", h |-> 500],
     [t |-> "int", v |-> 5], [t |-> "string", percent |-> TRUE, h |-> 1000],
     [t |-> "nil"]}

CompareAssertions ==
    [Type : {"field_match"}, Target : {<<"value">>, <<"meta", "ts">>},
     Tolerance : {[t |-> "nil"]}]
    \cup [Type : {"field_tolerance"}, Target : {<<"value">>}, Tolerance : Tolerances]
    \cup [Type : {"status_match", "shape_match"}, Target : {<<>>},
          Tolerance : {[t |-> "nil"]}]

AssertionLists ==
    UNION {[1..n -> CompareAssertions] : n \in 0..MaxAssertions}

CompareContexts ==
    [PrimaryStatusCode : {StatusOK}, CompareStatusCode : {StatusOK, StatusServerError},
     PrimaryBody : CompareBodies, CompareBody : CompareBodies]

\* SetIgnoreFields and SetMode: the evaluators a comparison is made with
IgnoreLists == {{}, {<<"meta">>}, {<<"meta", "ts">>}}
Modes == {"full", "partial", "structural"}
Evaluators == [ignoreFields : IgnoreLists, mode : Modes]

CallCompare ==
    /\ callIn = <<>>
    /\ \E ctx \in CompareContexts, assertions \in AssertionLists,
          e \in Evaluators :
          \* gjson reads only documents: a body that is no JSON is compared whole
          /\ (assertions # <<>>) => (ctx.PrimaryBody.Valid /\ ctx.CompareBody.Valid)
          /\ callIn' = [fn |-> "Compare", ctx |-> ctx, assertions |-> assertions,
                        e |-> e]
          /\ callOut' = Compare(e, ctx, assertions)
    /\ UNCHANGED <<dagTests, dagOut, dagPc, config, pc, producer, jobs, jobsClosed,
                   workers, results, resultsClosed, summary, allResults, sent, phase,
                   failedTests, store, started, produced, written, now, requests,
                   times, pct, lock, clients, linear>>

NextCompare == CallCompare

SpecCompare == InitVariables /\ [][NextCompare]_vars

(***************************************************************************)
(* cmd/bombardino: main.  The flags and the outcome of config.LoadFromFile *)
(* are inputs; a run is the stream of results of SpecCollect; the process  *)
(* ends with an exit code.                                                 *)
(***************************************************************************)

MainFlags ==
    [showVersion : BOOLEAN, validateOnly : BOOLEAN, configFile : {"", "test.json"},
     outputFormat : {"text", "json", "html"}]

\* the exit code of main before the engine runs, -1 when main goes on to the run
EarlyExit(flags, loadErr) ==
    IF flags.showVersion THEN 0
    ELSE IF flags.validateOnly
    THEN (IF flags.configFile = "" THEN 1 ELSE IF loadErr THEN 1 ELSE 0)
    ELSE IF flags.configFile = "" THEN 1
    ELSE IF loadErr THEN 1
    ELSE 0 - 1

ExitCode_AlwaysZero(runSummary) == 0

\* "if results.FailedReqs > 0 { os.Exit(1) }", and the return from main
ExitCode(runSummary) == IF runSummary.FailedReqs > 0 THEN 1 ELSE 0

\* the report generators that return an error: the HTML report is written
\* to the standard output by template.Execute, which fails when the write fails
ReportErrors(outputFormat) == IF outputFormat = "html" THEN BOOLEAN ELSE {FALSE}

InitMain ==
    /\ NoSchedule
    /\ NoAux
    /\ dagTests = <<>>
    /\ dagOut = [err |-> "pending", Phases |-> <<>>]
    /\ dagPc = "input"
    /\ config = CollectConfig
    /\ pc = "main"
    /\ producer = [test |-> Len(config.Tests) + 1, i |-> 0, finished |-> TRUE]
    /\ jobs = <<>>
    /\ jobsClosed = TRUE
    /\ workers = <<[st |-> "idle", job |-> 0]>>
    /\ results = <<>>
    /\ resultsClosed = FALSE
    /\ summary = EmptySummary
    /\ allResults = <<>>
    /\ sent = [t \in DOMAIN config.Tests |-> 0]

\* main up to "results := testEngine.Run(cfg)"
MainStart ==
    /\ pc = "main"
    /\ \E flags \in MainFlags, loadErr \in BOOLEAN :
          /\ callIn' = [fn |-> "main", flags |-> flags, loadErr |-> loadErr]
          /\ IF EarlyExit(flags, loadErr) >= 0
             THEN /\ pc' = "exited"
                  /\ callOut' = [exit |-> EarlyExit(flags, loadErr), ran |-> FALSE,
                                 reportErr |-> FALSE]
             ELSE /\ pc' = "running"
                  /\ callOut' = callOut
    /\ UNCHANGED <<dagTests, dagOut, dagPc, config, producer, jobs, jobsClosed,
                   workers, results, resultsClosed, summary, allResults, sent, phase,
                   failedTests, store, started, produced, written, now, requests,
                   times, pct, lock, clients, linear>>

\* main after Run: the report, then the exit code
MainReport ==
    /\ pc = "done"
    /\ \E reportErr \in ReportErrors(callIn.flags.outputFormat) :
          callOut' = [exit |-> IF reportErr THEN 1 ELSE ExitCode(summary),
                      ran |-> TRUE, reportErr |-> reportErr]
    /\ pc' = "exited"
    /\ UNCHANGED <<dagTests, dagOut, dagPc, config, producer, jobs, jobsClosed,
                   workers, results, resultsClosed, summary, allResults, sent, phase,
                   failedTests, store, started, produced, written, now, requests,
                   times, pct, lock, clients, linear, callIn>>

NextMain ==
    \/ MainStart
    \/ \E w \in DOMAIN workers : SendResult(w)
    \/ \E w \in DOMAIN workers : WorkerExit(w)
    \/ CloseResults
    \/ CollectResult
    \/ ReturnSummary
    \/ MainReport

SpecMain == InitMain /\ [][NextMain]_vars

(***************************************************************************)
(* SpecStoreSubstitute: Substitute while another goroutine calls the       *)
(* store.  The replacement function of Substitute makes two calls of the   *)
(* store for a token, s.store.Get and s.store.GetString, each under its    *)
(* own RLock; the other goroutine walks through its calls as in SpecStore. *)
(* callIn is the tokenized input, callOut the position of the Substitute   *)
(* call and the text it has produced for each piece so far.                *)
(***************************************************************************)
SubstituteInputs ==
    {<<Tok("x")>>, <<Lit("a"), Tok("x")>>, <<Tok("x"), Tok("y")>>}

InitStoreSubstitute ==
    /\ NoRun
    /\ NoSchedule
    /\ dagTests = <<>>
    /\ dagOut = [err |-> "pending", Phases |-> <<>>]
    /\ dagPc = "input"
    /\ now = 0
    /\ requests = <<>>
    /\ times = <<>>
    /\ pct = <<>>
    /\ lock = [writer |-> 0, readers |-> {}]
    /\ clients = [c \in {1} |-> IdleClient(0)]
    /\ linear = <<>>
    /\ callIn = <<>>
    /\ callOut = <<>>

SubstituteFrame == UNCHANGED <<dagVars, runVars, phase, failedTests, started, produced,
                               written, now, requests, times, pct, store, lock,
                               clients, linear>>

\* sub.Substitute(input) is called
SubstituteCall ==
    /\ callIn = <<>>
    /\ \E pieces \in SubstituteInputs :
          /\ callIn' = [fn |-> "Substitute", pieces |-> pieces]
          /\ callOut' = [pc |-> "match", parts |-> <<>>, str |-> ""]
    /\ SubstituteFrame

\* ReplaceAllStringFunc copies the text before the next match
SubstituteCopy ==
    /\ callIn # <<>>
    /\ callOut.pc = "match"
    /\ Len(callOut.parts) < Len(callIn.pieces)
    /\ callIn.pieces[Len(callOut.parts) + 1].kind = "lit"
    /\ callOut' = [callOut EXCEPT
                      !.parts = Append(@, callIn.pieces[Len(callOut.parts) + 1].text)]
    /\ UNCHANGED callIn
    /\ SubstituteFrame

\* "if value, ok := s.store.Get(varName); ok": the Get runs under the read
\* lock; an absent variable keeps the match
SubstituteGet ==
    /\ callIn # <<>>
    /\ callOut.pc = "match"
    /\ Len(callOut.parts) < Len(callIn.pieces)
    /\ callIn.pieces[Len(callOut.parts) + 1].kind = "var"
    /\ CanRLock(lock)
    /\ LET varName == callIn.pieces[Len(callOut.parts) + 1].text IN
       callOut' = IF StoreGet(store, varName).ok
                  THEN [callOut EXCEPT !.pc = "getstring"]
                  ELSE [callOut EXCEPT !.parts = Append(@, "${" \o varName \o "}")]
    /\ UNCHANGED callIn
    /\ SubstituteFrame

\* "return s.store.GetString(varName)": a second call of the store, under a
\* read lock of its own
SubstituteGetString ==
    /\ callIn # <<>>
    /\ callOut.pc = "getstring"
    /\ CanRLock(lock)
    /\ LET varName == callIn.pieces[Len(callOut.parts) + 1].text IN
       callOut' = [callOut EXCEPT
                      !.pc = "match",
                      !.parts = Append(@, StoreGetString(store, varName))]
    /\ UNCHANGED callIn
    /\ SubstituteFrame

\* ReplaceAllStringFunc returns the pieces put together
SubstituteReturn ==
    /\ callIn # <<>>
    /\ callOut.pc = "match"
    /\ Len(callOut.parts) = Len(callIn.pieces)
    /\ callOut' = [callOut EXCEPT !.pc = "done", !.str = Join(callOut.parts)]
    /\ UNCHANGED callIn
    /\ SubstituteFrame

NextStoreSubstitute ==
    \/ \E c \in DOMAIN clients :
          \/ StoreCall(c)
          \/ StoreAcquire(c)
          \/ StoreBody(c)
          \/ StoreSetFromMapStep(c)
          \/ StoreAllStep(c)
          \/ StoreRelease(c)
          \/ StoreReturn(c)
    \/ SubstituteCall
    \/ SubstituteCopy
    \/ SubstituteGet
    \/ SubstituteGetString
    \/ SubstituteReturn

SpecStoreSubstitute == InitStoreSubstitute /\ [][NextStoreSubstitute]_vars

(***************************************************************************)
(* SpecTotalTime: the flat engine with the wall clock that executeTest and *)
(* collectResults read.  A worker reads the clock when executeTest starts  *)
(* ("start := time.Now()") and when the exchange has ended                  *)
(* ("time.Since(start)"), and sends the result afterwards; the clock may   *)
(* advance between any two steps of any goroutine.  An exchange takes at   *)
(* least one tick; a request that cannot be created takes none.            *)
(***************************************************************************)
MaxClock == 3

\* the configs of the clocked runs: one test, no delay
ClockedConfigs ==
    {c \in FlatConfigs : c.Delay = 0 /\ Len(c.Tests) = 1 /\ c.Tests[1].Data = 0}

\* TestResult{..., Timestamp: start}
WithTimestamp(result, start) ==
    [f \in (DOMAIN result) \cup {"Timestamp"} |->
        IF f = "Timestamp" THEN start ELSE result[f]]

\* collectResults: "summary.TotalTime = allResults[len(allResults)-1].
\* Timestamp.Sub(allResults[0].Timestamp) + allResults[len(allResults)-1].
\* ResponseTime", inside "if len(allResults) > 0"
TotalTime(all) ==
    IF Len(all) = 0 THEN 0
    ELSE (all[Len(all)].Timestamp - all[1].Timestamp) + all[Len(all)].ResponseTime

\* collectResults: "if summary.TotalTime > 0 { summary.RequestsPerSec =
\* float64(len(allResults)) / summary.TotalTime.Seconds() }", as the fraction
\* requests over ticks; the field is 0 when it is not assigned
RequestsPerSec(all) ==
    IF TotalTime(all) > 0
    THEN [requests |-> Len(all), ticks |-> TotalTime(all)]
    ELSE [requests |-> 0, ticks |-> 1]

InitTotalTime ==
    /\ NoSchedule
    /\ NoAux
    /\ dagTests = <<>>
    /\ dagOut = [err |-> "pending", Phases |-> <<>>]
    /\ dagPc = "input"
    /\ config \in ClockedConfigs
    /\ pc = "running"
    /\ producer = [test |-> 1, i |-> 0, finished |-> FALSE]
    /\ jobs = <<>>
    /\ jobsClosed = FALSE
    /\ workers = [w \in 1..WorkerCount(config) |->
                     [st |-> "idle", job |-> 0, start |-> 0, result |-> <<>>]]
    /\ results = <<>>
    /\ resultsClosed = FALSE
    /\ summary = EmptySummary
    /\ allResults = <<>>
    /\ sent = [t \in DOMAIN config.Tests |-> 0]

ClockedFrame == UNCHANGED <<dagVars, schedVars, requests, times, pct, lock, clients,
                            linear, callIn, callOut>>

\* worker: "case job, ok := <-jobs" with ok true; executeTest begins with
\* "start := time.Now()"
ClockedDequeue(w) ==
    /\ pc = "running"
    /\ workers[w].st = "idle"
    /\ jobs # <<>>
    /\ workers' = [workers EXCEPT ![w] = [st |-> "exec", job |-> Head(jobs),
                                          start |-> now, result |-> <<>>]]
    /\ jobs' = Tail(jobs)
    /\ UNCHANGED <<config, pc, producer, jobsClosed, results, resultsClosed,
                   summary, allResults, sent, now>>
    /\ ClockedFrame

\* worker: executeTest returns its result: the request could not be created,
\* or the exchange has ended and "time.Since(start)" is its response time
ClockedExecute(w) ==
    /\ pc = "running"
    /\ workers[w].st = "exec"
    /\ \E outcome \in Outcomes \cup {NoRequest} :
          /\ outcome # NoRequest => now > workers[w].start
          /\ workers' = [workers EXCEPT
                            ![w].st = "send",
                            ![w].result =
                                WithTimestamp(executeTest(config, workers[w].job, outcome,
                                                          now - workers[w].start),
                                              workers[w].start)]
    /\ UNCHANGED <<config, pc, producer, jobs, jobsClosed, results, resultsClosed,
                   summary, allResults, sent, now>>
    /\ ClockedFrame

\* worker: "results <- result"
ClockedSend(w) ==
    /\ pc = "running"
    /\ workers[w].st = "send"
    /\ Len(results) < ResultsCap
    /\ results' = Append(results, workers[w].result)
    /\ workers' = [workers EXCEPT ![w].st = AfterJob(config, workers[w].result)]
    /\ UNCHANGED <<config, pc, producer, jobs, jobsClosed, resultsClosed,
                   summary, allResults, sent, now>>
    /\ ClockedFrame

\* the wall clock advances
ClockTick ==
    /\ pc = "running"
    /\ now < MaxClock
    /\ now' = now + 1
    /\ UNCHANGED <<dagVars, runVars, schedVars, requests, times, pct, lock, clients,
                   linear, callIn, callOut>>

\* collectResults: the range loop ends on the closed, drained channel; the
\* averages, the percentiles, TotalTime and RequestsPerSec are computed
ClockedReturn ==
    /\ pc = "running"
    /\ results = <<>>
    /\ resultsClosed
    /\ pc' = "done"
    /\ summary' = FinalStats(summary, allResults)
    /\ callOut' = [TotalTime |-> TotalTime(allResults),
                   RequestsPerSec |-> RequestsPerSec(allResults)]
    /\ UNCHANGED <<config, producer, jobs, jobsClosed, workers, results,
                   resultsClosed, allResults, sent>>
    /\ UNCHANGED <<dagVars, schedVars, now, requests, times, pct, lock, clients,
                   linear, callIn>>

NextTotalTime ==
    \/ Produce
    \/ CloseJobs
    \/ \E w \in DOMAIN workers : ClockedDequeue(w)
    \/ \E w \in DOMAIN workers : ClockedExecute(w)
    \/ \E w \in DOMAIN workers : ClockedSend(w)
    \/ \E w \in DOMAIN workers : WorkerExit(w)
    \/ CloseResults
    \/ CollectResult
    \/ ClockTick
    \/ ClockedReturn

SpecTotalTime == InitTotalTime /\ [][NextTotalTime]_vars

(***************************************************************************)
(* SpecVerbose: the flat engine in verbose mode.  executeTest draws a      *)
(* correlation id (the first 8 characters of a UUID, so two requests may   *)
(* draw the same), sends a request record to the log channel before the    *)
(* exchange and a response record after it; the logger goroutine receives  *)
(* the records and appends them to e.debugLogs; Run, once collectResults   *)
(* has returned, closes the log channel, sleeps and copies e.debugLogs     *)
(* into the summary.  The sleep ends whenever the scheduler lets it: no    *)
(* step of the logger is bound to happen within it.                        *)
(* callOut holds the log channel, the record the logger has received,      *)
(* e.debugLogs, Summary.DebugLogs, and the list of all records sent.       *)
(***************************************************************************)
LogCap == 100
MaxIDs == 2

\* uuid.New().String()[:8]
RequestIDs == 1..MaxIDs

\* models.DebugLog{RequestID: requestID, Type: ...}
DebugLog(requestID, type) == [RequestID |-> requestID, Type |-> type]

\* mutant: the logger puts a record in front of the ones it has
AppendLog_InFront(debugLogs, log) == <<log>> \o debugLogs

\* "e.debugLogs = append(e.debugLogs, log)"
AppendLog(debugLogs, log) == Append(debugLogs, log)

InitVerbose ==
    /\ NoSchedule
    /\ dagTests = <<>>
    /\ dagOut = [err |-> "pending", Phases |-> <<>>]
    /\ dagPc = "input"
    /\ config \in ClockedConfigs
    /\ pc = "running"
    /\ producer = [test |-> 1, i |-> 0, finished |-> FALSE]
    /\ jobs = <<>>
    /\ jobsClosed = FALSE
    /\ workers = [w \in 1..WorkerCount(config) |->
                     [st |-> "idle", job |-> 0, requestID |-> 0, outcome |-> 0]]
    /\ results = <<>>
    /\ resultsClosed = FALSE
    /\ summary = EmptySummary
    /\ allResults = <<>>
    /\ sent = [t \in DOMAIN config.Tests |-> 0]
    /\ now = 0
    /\ requests = <<>>
    /\ times = <<>>
    /\ pct = <<>>
    /\ lock = [writer |-> 0, readers |-> {}]
    /\ clients = <<>>
    /\ linear = <<>>
    /\ callIn = <<>>
    /\ callOut = [logChan |-> <<>>, closed |-> FALSE, received |-> <<>>,
                  debugLogs |-> <<>>, DebugLogs |-> <<>>, enqueued |-> <<>>]

VerboseFrame == UNCHANGED <<dagVars, schedVars, now, requests, times, pct, lock, clients,
                            linear, callIn>>

\* worker: "case job, ok := <-jobs" with ok true; executeTest draws the
\* request id
VerboseDequeue(w) ==
    /\ pc = "running"
    /\ workers[w].st = "idle"
    /\ jobs # <<>>
    /\ \E id \in RequestIDs :
          workers' = [workers EXCEPT ![w] = [st |-> "create", job |-> Head(jobs),
                                             requestID |-> id, outcome |-> 0]]
    /\ jobs' = Tail(jobs)
    /\ UNCHANGED <<config, pc, producer, jobsClosed, results, resultsClosed,
                   summary, allResults, sent, callOut>>
    /\ VerboseFrame

\* executeTest: createRequest fails and the result is returned at once, or
\* the request record is sent, "e.logChan <- log"
VerboseRequest(w) ==
    /\ pc = "running"
    /\ workers[w].st = "create"
    /\ \/ /\ workers' = [workers EXCEPT ![w].st = "send", ![w].outcome = NoRequest]
          /\ UNCHANGED callOut
       \/ /\ Len(callOut.logChan) < LogCap
          /\ workers' = [workers EXCEPT ![w].st = "exec"]
          /\ callOut' = [callOut EXCEPT
                            !.logChan = Append(@, DebugLog(workers[w].requestID, "request")),
                            !.enqueued = Append(@, DebugLog(workers[w].requestID, "request"))]
    /\ UNCHANGED <<config, pc, producer, jobs, jobsClosed, results, resultsClosed,
                   summary, allResults, sent>>
    /\ VerboseFrame

\* executeTest: "resp, err := client.Do(req)": a transport error returns the
\* result without a response record; otherwise the response record is due
VerboseExchange(w) ==
    /\ pc = "running"
    /\ workers[w].st = "exec"
    /\ \E outcome \in Outcomes :
          workers' = [workers EXCEPT
                         ![w].st = IF outcome = NoResponse THEN "send" ELSE "respond",
                         ![w].outcome = outcome]
    /\ UNCHANGED <<config, pc, producer, jobs, jobsClosed, results, resultsClosed,
                   summary, allResults, sent, callOut>>
    /\ VerboseFrame

\* executeTest: the response record is sent, "e.logChan <- log"
VerboseResponse(w) ==
    /\ pc = "running"
    /\ workers[w].st = "respond"
    /\ Len(callOut.logChan) < LogCap
    /\ workers' = [workers EXCEPT ![w].st = "send"]
    /\ callOut' = [callOut EXCEPT
                      !.logChan = Append(@, DebugLog(workers[w].requestID, "response")),
                      !.enqueued = Append(@, DebugLog(workers[w].requestID, "response"))]
    /\ UNCHANGED <<config, pc, producer, jobs, jobsClosed, results, resultsClosed,
                   summary, allResults, sent>>
    /\ VerboseFrame

\* worker: "results <- result"
VerboseSend(w) ==
    /\ pc = "running"
    /\ workers[w].st = "send"
    /\ Len(results) < ResultsCap
    /\ LET result == executeTest(config, workers[w].job, workers[w].outcome, 1) IN
          /\ results' = Append(results, result)
          /\ workers' = [workers EXCEPT ![w].st = AfterJob(config, result)]
    /\ UNCHANGED <<config, pc, producer, jobs, jobsClosed, resultsClosed,
                   summary, allResults, sent, callOut>>
    /\ VerboseFrame

\* logger: "for log := range e.logChan" receives a record
LoggerReceive ==
    /\ callOut.received = <<>>
    /\ callOut.logChan # <<>>
    /\ callOut' = [callOut EXCEPT !.received = <<Head(callOut.logChan)>>,
                                  !.logChan = Tail(@)]
    /\ UNCHANGED <<runVars, dagVars, schedVars, now, requests, times, pct, lock, clients,
                   linear, callIn>>

\* logger: "e.logMutex.Lock(); e.debugLogs = append(e.debugLogs, log);
\* e.logMutex.Unlock()"
LoggerAppend ==
    /\ callOut.received # <<>>
    /\ callOut' = [callOut EXCEPT !.received = <<>>,
                                  !.debugLogs = AppendLog(@, callOut.received[1])]
    /\ UNCHANGED <<runVars, dagVars, schedVars, now, requests, times, pct, lock, clients,
                   linear, callIn>>

\* Run: collectResults returns, "close(e.logChan)" and the sleep begins
VerboseCloseLog ==
    /\ pc = "running"
    /\ results = <<>>
    /\ resultsClosed
    /\ pc' = "sleep"
    /\ summary' = FinalStats(summary, allResults)
    /\ callOut' = [callOut EXCEPT !.closed = TRUE]
    /\ UNCHANGED <<config, producer, jobs, jobsClosed, workers, results,
                   resultsClosed, allResults, sent>>
    /\ VerboseFrame

\* Run: the sleep is over, "summary.DebugLogs = e.debugLogs" under the mutex,
\* and Run returns
VerboseReturn ==
    /\ pc = "sleep"
    /\ pc' = "done"
    /\ callOut' = [callOut EXCEPT !.DebugLogs = callOut.debugLogs]
    /\ UNCHANGED <<config, producer, jobs, jobsClosed, workers, results,
                   resultsClosed, summary, allResults, sent>>
    /\ VerboseFrame

NextVerbose ==
    \/ Produce
    \/ CloseJobs
    \/ \E w \in DOMAIN workers : VerboseDequeue(w)
    \/ \E w \in DOMAIN workers : VerboseRequest(w)
    \/ \E w \in DOMAIN workers : VerboseExchange(w)
    \/ \E w \in DOMAIN workers : VerboseResponse(w)
    \/ \E w \in DOMAIN workers : VerboseSend(w)
    \/ \E w \in DOMAIN workers : WorkerExit(w)
    \/ CloseResults
    \/ CollectResult
    \/ LoggerReceive
    \/ LoggerAppend
    \/ VerboseCloseLog
    \/ VerboseReturn

SpecVerbose == InitVerbose /\ [][NextVerbose]_vars

(***************************************************************************)
(* SpecSleep: duration-based runs of the worker pool with think time and   *)
(* inter-request delay, with the clock of SpecTimed.  A sleeping worker    *)
(* stands in "select { case <-ctx.Done(): return; case <-time.After(d): }" *)
(* and leaves it by the case that becomes ready first; whatever a          *)
(* goroutine can do without waiting happens before the clock advances.     *)
(* The delay is the worker's code; the think-time sleep before the request *)
(* is modelled from the description of the worker pool.                    *)
(***************************************************************************)
MaxSleep == 2

SleepConfigs ==
    {c \in [workers : 1..MaxWorkers, Iterations : {0}, Duration : 1..MaxTestDuration,
            Timeout : 1..MaxTimeout, Delay : 0..MaxSleep, ThinkTime : 0..MaxSleep,
            Tests : [1..1 -> TimedTestCases]] :
        /\ c.Tests[1].Name = "A"
        /\ c.Tests[1].Iterations = 0
        /\ c.Tests[1].Duration = 0}

\* mutant: the sleep is a plain time.Sleep, which the context cannot end
SelectSleep_TimerOnly(ctxDone, timerFired) ==
    IF timerFired THEN {"timer"} ELSE {}

\* "select { case <-ctx.Done(): return; case <-time.After(delay): }": the
\* cases the select can take
SelectSleep(ctxDone, timerFired) ==
    (IF ctxDone THEN {"cancel"} ELSE {}) \cup (IF timerFired THEN {"timer"} ELSE {})

\* the applicable think time of a job
ThinkTimeOf(cfg, t) == cfg.ThinkTime

\* "delay := job.TestCase.Delay; if delay == 0 { delay = job.Config.Global.Delay }"
DelayOf(cfg, t) == cfg.Delay

InitSleep ==
    /\ NoSchedule
    /\ dagTests = <<>>
    /\ dagOut = [err |-> "pending", Phases |-> <<>>]
    /\ dagPc = "input"
    /\ config \in SleepConfigs
    /\ pc = "running"
    /\ producer = [t \in DOMAIN config.Tests |-> [i |-> 0, finished |-> FALSE]]
    /\ jobs = <<>>
    /\ jobsClosed = FALSE
    /\ workers = [w \in 1..WorkerCount(config) |->
                     [st |-> "idle", job |-> 0, since |-> 0, wake |-> 0, slept |-> ""]]
    /\ results = <<>>
    /\ resultsClosed = FALSE
    /\ summary = EmptySummary
    /\ allResults = <<>>
    /\ sent = [t \in DOMAIN config.Tests |-> 0]
    /\ now = 0
    /\ requests = [t \in DOMAIN config.Tests |-> 0]
    /\ times = <<>>
    /\ pct = <<>>
    /\ lock = [writer |-> 0, readers |-> {}]
    /\ clients = <<>>
    /\ linear = <<>>
    /\ callIn = <<>>
    /\ callOut = <<>>

SleepFrame ==
    /\ UNCHANGED <<config, pc, producer, jobsClosed, resultsClosed, summary, allResults,
                   sent>>
    /\ UNCHANGED <<dagVars, schedVars, now, requests, times, pct, lock, clients, linear,
                   callIn, callOut>>

\* the cases the sleeping worker's select can take now
SleepCases(w) == SelectSleep(CtxDone, now >= workers[w].wake)

\* worker: "case job, ok := <-jobs" with a job; the think-time sleep begins
\* unless the think time is zero
SleepDequeue(w) ==
    /\ pc = "running"
    /\ workers[w].st = "idle"
    /\ jobs # <<>>
    /\ workers' = [workers EXCEPT ![w] =
                      IF ThinkTimeOf(config, Head(jobs)) > 0
                      THEN [@ EXCEPT !.st = "think", !.job = Head(jobs), !.since = now,
                                     !.wake = now + ThinkTimeOf(config, Head(jobs)),
                                     !.slept = "think"]
                      ELSE [@ EXCEPT !.st = "exec", !.job = Head(jobs), !.since = now]]
    /\ jobs' = Tail(jobs)
    /\ UNCHANGED results
    /\ SleepFrame

\* worker: the think time is over, the request is issued
SleepThinkDone(w) ==
    /\ pc = "running"
    /\ workers[w].st = "think"
    /\ "timer" \in SleepCases(w)
    /\ workers' = [workers EXCEPT ![w].st = "exec", ![w].since = now]
    /\ UNCHANGED <<jobs, results>>
    /\ SleepFrame

\* worker: "case <-ctx.Done(): return" of a sleep
SleepCancel(w) ==
    /\ pc = "running"
    /\ workers[w].st \in {"think", "delay"}
    /\ "cancel" \in SleepCases(w)
    /\ workers' = [workers EXCEPT ![w].st = "exited"]
    /\ UNCHANGED <<jobs, results>>
    /\ SleepFrame

\* worker: the exchange ends after a positive time, "results <- result", and
\* the delay begins if there is one
SleepExecute(w) ==
    /\ pc = "running"
    /\ workers[w].st = "exec"
    /\ now > workers[w].since
    /\ Len(results) < ResultsCap
    /\ results' = Append(results, executeTest(config, workers[w].job, StatusOK,
                                              now - workers[w].since))
    /\ workers' = [workers EXCEPT ![w] =
                      IF DelayOf(config, workers[w].job) > 0
                      THEN [@ EXCEPT !.st = "delay", !.since = now,
                                     !.wake = now + DelayOf(config, workers[w].job),
                                     !.slept = "delay"]
                      ELSE [@ EXCEPT !.st = "idle"]]
    /\ UNCHANGED jobs
    /\ SleepFrame

\* worker: "case <-time.After(delay)": the delay is over
SleepDelayDone(w) ==
    /\ pc = "running"
    /\ workers[w].st = "delay"
    /\ "timer" \in SleepCases(w)
    /\ workers' = [workers EXCEPT ![w].st = "idle"]
    /\ UNCHANGED <<jobs, results>>
    /\ SleepFrame

\* some goroutine can take a step without waiting
SleepUrgent ==
    \/ \E t \in DOMAIN producer : CanProduce(t) \/ CanFinish(t)
    \/ ~jobsClosed /\ \A t \in DOMAIN producer : producer[t].finished
    \/ \E w \in DOMAIN workers :
          \/ /\ workers[w].st = "idle"
             /\ jobs # <<>> \/ CtxDone \/ jobsClosed
          \/ /\ workers[w].st \in {"think", "delay"}
             /\ SleepCases(w) # {}
    \/ ~resultsClosed /\ \A w \in DOMAIN workers : workers[w].st = "exited"
    \/ results # <<>>
    \/ resultsClosed

\* the clock advances: nothing can be done without waiting, and no exchange
\* outlives the client timeout
SleepTick ==
    /\ pc = "running"
    /\ ~SleepUrgent
    /\ \A w \in DOMAIN workers :
          workers[w].st = "exec" => now - workers[w].since < config.Timeout
    /\ now' = now + 1
    /\ UNCHANGED <<dagVars, runVars, schedVars, requests, times, pct, lock, clients, linear,
                   callIn, callOut>>

NextSleep ==
    \/ \E t \in DOMAIN producer : TimedProduce(t)
    \/ \E t \in DOMAIN producer : TimedProducerDone(t)
    \/ TimedCloseJobs
    \/ \E w \in DOMAIN workers : SleepDequeue(w)
    \/ \E w \in DOMAIN workers : SleepThinkDone(w)
    \/ \E w \in DOMAIN workers : SleepCancel(w)
    \/ \E w \in DOMAIN workers : SleepExecute(w)
    \/ \E w \in DOMAIN workers : SleepDelayDone(w)
    \/ \E w \in DOMAIN workers : TimedWorkerCancel(w)
    \/ \E w \in DOMAIN workers : WorkerExit(w)
    \/ CloseResults
    \/ CollectResult
    \/ ReturnSummary
    \/ SleepTick

SpecSleep == InitSleep /\ [][NextSleep]_vars

(***************************************************************************)
(* SpecLive: runs of the flat engine in iteration mode (the actions of     *)
(* Spec) and in duration and mixed mode (the actions of SpecTimed), under  *)
(* the assumption that the run does not stop while a goroutine can take a  *)
(* step or the clock can advance: the Go scheduler runs every runnable     *)
(* goroutine, every HTTP exchange ends within the client timeout, and      *)
(* time passes.                                                            *)
(***************************************************************************)
\* the run is duration-based or mixed: its config has durations
TimedRun == "Duration" \in DOMAIN config

LiveFlatConfigs ==
    {c \in FlatConfigs :
        /\ \A t \in DOMAIN c.Tests : c.Tests[t].Data = 0
        /\ Len(c.Tests) = 1 \/ c.Iterations = 1}

LiveTimedConfigs ==
    {c \in TimedConfigs :
        c.Duration <= 1 /\ \A t \in DOMAIN c.Tests : c.Tests[t].Duration <= 1}

InitLive ==
    \/ Init /\ config \in LiveFlatConfigs
    \/ InitTimed /\ config \in LiveTimedConfigs

NextLive ==
    \/ ~TimedRun /\ Next
    \/ TimedRun /\ NextTimed

SpecLive == InitLive /\ [][NextLive]_vars /\ WF_vars(NextLive)

(***************************************************************************)
(* Claims about the flat engine (specification Spec).                      *)
(***************************************************************************)
Conserved(s) == s.TotalRequests = s.SuccessfulReqs + s.FailedReqs + s.SkippedReqs

\* C1: request conservation. When Run has returned, TotalRequests =
\* SuccessfulReqs + FailedReqs + SkippedReqs holds of the Summary and of every
\* EndpointSummary, whatever the config, the worker count and the order in
\* which the results reached the aggregator.
C1_RequestConservation ==
    pc = "done" =>
        /\ Conserved(summary)
        /\ \A k \in DOMAIN summary.EndpointResults :
              Conserved(summary.EndpointResults[k])

\* a run of two workers that returned with successes and failures of two endpoints
C1_Witness ==
    /\ pc = "done"
    /\ config.workers = 2
    /\ summary.SuccessfulReqs > 0
    /\ summary.FailedReqs > 1
    /\ NoResponse \in DOMAIN summary.StatusCodes
    /\ DOMAIN summary.EndpointResults = {"A", "B"}

\* the results of a test name in allResults
ResultsOf(name) == Cardinality({i \in DOMAIN allResults : allResults[i].TestName = name})

\* the jobs the claim expects of test t: its effective iterations, times the
\* number of its data rows when it has any
ClaimedJobs(cfg, t) ==
    EffectiveIterations(cfg, t) *
        (IF cfg.Tests[t].Data = 0 THEN 1 ELSE cfg.Tests[t].Data)

Sum(f, S) ==
    LET RECURSIVE Acc(_)
        Acc(T) == IF T = {} THEN 0
                  ELSE LET x == CHOOSE y \in T : TRUE IN f[x] + Acc(T \ {x})
    IN Acc(S)

\* C10: iteration accounting. When Run has returned in iteration mode, the
\* jobs dispatched of each test are its effective iterations without data rows
\* and iterations x r with r data rows, and every test name has exactly one
\* TestResult per dispatched job.
C10_IterationAccounting ==
    pc = "done" =>
        /\ \A t \in DOMAIN config.Tests : sent[t] = ClaimedJobs(config, t)
        /\ \A n \in FlatNames :
              ResultsOf(n) = Sum(sent, {t \in DOMAIN config.Tests : config.Tests[t].Name = n})

(***************************************************************************)
(* Claims about BuildDAG (specification SpecBuildDAG).                     *)
(***************************************************************************)
\* the phases (1-based) of a plan that hold a name
PhasesOf(phases, n) == {i \in DOMAIN phases : n \in phases[i]}

\* every name of the list is in exactly one phase, no phase is empty and every
\* dependency of a test lies in a strictly earlier phase
ValidPlan(ts, phases) ==
    /\ \A n \in TestNameSet(ts) : Cardinality(PhasesOf(phases, n)) = 1
    /\ \A i \in DOMAIN phases : phases[i] # {}
    /\ \A n \in TestNameSet(ts) : \A d \in DepsOf(ts, n) :
          \A i \in PhasesOf(phases, n) :
             \E j \in PhasesOf(phases, d) : j < i

\* C7: plan validity. For every input list whose depends_on names all resolve
\* and whose dependency graph is acyclic, BuildDAG returns phases in which
\* every test name is in exactly one phase, no phase is empty and every
\* dependency of a test is in a strictly earlier phase.
C7_PlanValidity ==
    (dagPc = "returned" /\ AllResolve(dagTests) /\ ~HasCycle(dagTests)) =>
        /\ dagOut.err = "none"
        /\ ValidPlan(dagTests, dagOut.Phases)

\* C9: unknown dependency. BuildDAG returns the unknown-dependency error, and
\* no plan, exactly when some depends_on entry names a test that is not in the
\* input list, whatever else the graph holds.
C9_UnknownDependency ==
    dagPc = "returned" =>
        /\ (dagOut.err = "unknown dependency") <=> ~AllResolve(dagTests)
        /\ dagOut.err = "unknown dependency" => dagOut.Phases = <<>>

\* BuildDAG refused a list that has an unresolved name and a cycle as well
C9_Witness ==
    /\ dagPc = "returned"
    /\ dagOut.err = "unknown dependency"
    /\ HasCycle(dagTests)
    /\ Len(dagTests) = 3

\* the number of tests on the longest dependency chain that ends in n
\* (on a graph without cycles; k bounds the depth)
RECURSIVE ChainLength(_, _, _)
ChainLength(ts, n, k) ==
    IF k = 0 \/ DepsOf(ts, n) = {} THEN 1
    ELSE 1 + MaxOf({ChainLength(ts, d, k - 1) : d \in DepsOf(ts, n)})

LongestChain(ts) ==
    IF ts = <<>> THEN 0
    ELSE MaxOf({ChainLength(ts, n, Cardinality(Names)) : n \in TestNameSet(ts)})

\* C30: minimal layering. In the plan BuildDAG returns, a test with no
\* dependencies is in phase 0 and any other test is in phase 1 + the maximum
\* phase of its dependencies, and the number of phases is the length of the
\* longest dependency chain.
C30_MinimalLayering ==
    (dagPc = "returned" /\ dagOut.err = "none") =>
        /\ \A n \in TestNameSet(dagTests) :
              GetPhaseForTest(dagOut.Phases, n) =
                  IF DepsOf(dagTests, n) = {} THEN 0
                  ELSE 1 + MaxOf({GetPhaseForTest(dagOut.Phases, d) :
                                    d \in DepsOf(dagTests, n)})
        /\ Len(dagOut.Phases) = LongestChain(dagTests)

\* a plan of three phases in which a test has dependencies in two phases
C30_Witness ==
    /\ dagPc = "returned"
    /\ dagOut.err = "none"
    /\ Len(dagOut.Phases) = 3
    /\ \E n \in TestNameSet(dagTests) :
          \E d1, d2 \in DepsOf(dagTests, n) :
              GetPhaseForTest(dagOut.Phases, d1) # GetPhaseForTest(dagOut.Phases, d2)

(***************************************************************************)
(* Claims about the phase-sequenced scheduler (specification SpecDAGRun).  *)
(***************************************************************************)
\* the run got a plan and is under way or over
Planned == dagPc = "returned" /\ dagOut.err = "none"

\* the jobs of the test of a name in the run
JobsOf(name) == JobsOfTest(config, TestIndex(config, name))

\* every job of the test has its result (executed or skipped)
Completed(name) == produced[name] = JobsOf(name)

\* the test failed by a job of its own: it was run and is marked failed
FailedItself(name) == name \in failedTests /\ started[name] > 0

\* the test was skipped: it is marked failed and never ran
WasSkipped(name) == name \in failedTests /\ started[name] = 0

\* the direct dependencies of a test of the run
DirectDeps(name) == DepsOf(dagTests, name)

SkippedInChannel(name) ==
    {i \in DOMAIN results : results[i].Skipped /\ results[i].TestName = name}

\* test a ran no job and, once Run has returned, all its jobs are counted skipped
AllJobsSkipped(a) ==
    /\ started[a] = 0
    /\ pc = "done" =>
          /\ a \in DOMAIN summary.EndpointResults
          /\ summary.EndpointResults[a].SkippedReqs = JobsOf(a)
          /\ summary.EndpointResults[a].TotalRequests = JobsOf(a)

FirstFailedDep(a) ==
    LET deps == config.Tests[TestIndex(config, a)].DependsOn
        j == CHOOSE i \in DOMAIN deps :
                /\ deps[i] \in failedTests
                /\ \A k \in 1..(i - 1) : deps[k] \notin failedTests
    IN deps[j]

ChainRun ==
    /\ Planned
    /\ dagTests = <<[Name |-> "A", DependsOn |-> <<>>],
                    [Name |-> "B", DependsOn |-> <<"A">>],
                    [Name |-> "C", DependsOn |-> <<"B">>]>>
    /\ config.Iterations = 1

Refused(err) ==
    /\ dagOut.err = err
    /\ dagOut.Phases = <<>>
    /\ \A n \in DOMAIN started : started[n] = 0
    /\ summary.TotalRequests = 0
    /\ DOMAIN summary.Errors = {err}
    /\ summary.Errors[err] = 1

RequestsOfRow(i) ==
    {q \in DOMAIN requests : requests[q].name = StringValue(RowValue(i))}

Abs(x) == IF x < 0 THEN 0 - x ELSE x

\* C13: percentile formula. calculatePercentile(times, p) over the sorted list
\* of length n uses the index i = p * (n-1) / 100 and returns times[floor(i)]
\* when i is an integer, otherwise the linear interpolation between
\* times[floor(i)] and times[floor(i)+1] (up to the truncation to a whole
\* nanosecond); with n = 1 it returns the single value, with n = 0 zero.
C13_PercentileFormula ==
    pct # <<>> =>
        LET s == SortSeq(pct.input, LAMBDA a, b : a < b)
            n == Len(pct.input)
            i100 == pct.percentile * (n - 1)
            fl == i100 \div 100
            rem == i100 % 100
        IN  IF n = 0 THEN pct.value = 0
            ELSE IF n = 1 THEN pct.value = s[1]
            ELSE IF rem = 0 THEN pct.value = s[fl + 1]
            ELSE Abs(100 * pct.value
                       - (100 * s[fl + 1] + rem * (s[fl + 2] - s[fl + 1]))) < 100

\* C12: percentile monotonicity. For every run with at least one non-skipped
\* result the Summary satisfies MinResponseTime <= P50 <= P95 <= P99 <=
\* MaxResponseTime, for every multiset of response times (response times of
\* zero included) and every arrival order of the results.
C12_PercentileMonotonicity ==
    (pc = "done" /\ Len(allResults) > 0) =>
        /\ summary.MinResponseTime <= summary.P50ResponseTime
        /\ summary.P50ResponseTime <= summary.P95ResponseTime
        /\ summary.P95ResponseTime <= summary.P99ResponseTime
        /\ summary.P99ResponseTime <= summary.MaxResponseTime

(***************************************************************************)
(* More claims about the flat engine (specification Spec).                 *)
(***************************************************************************)
\* the results of jobs that ended in a transport error (a timeout is one) or
\* in a status that was not expected
FailedJobResults ==
    {i \in DOMAIN allResults :
        \/ allResults[i].StatusCode = NoResponse
        \/ allResults[i].StatusCode # StatusOK}

\* C17: job-level failures never abort the run. A job that ends in a
\* transport error, timeout or unexpected status produces a failed TestResult
\* and every other dispatched job is still executed: in iteration mode the
\* number of results is the number of jobs of the config, whichever jobs fail.
C17_FailuresNeverAbort ==
    /\ \A i \in FailedJobResults :
          ~allResults[i].Success /\ allResults[i].Error # ""
    /\ pc = "done" =>
          /\ Len(allResults) = Sum(sent, DOMAIN config.Tests)
          /\ Len(allResults) =
                Sum([t \in DOMAIN config.Tests |-> JobsOfTest(config, t)], DOMAIN config.Tests)

\* a run of four jobs has returned: one ended without response, one with an
\* unexpected status, and the jobs after them were executed
C17_Witness ==
    /\ pc = "done"
    /\ Len(allResults) = 4
    /\ allResults[1].StatusCode = NoResponse
    /\ allResults[2].StatusCode = StatusServerError
    /\ allResults[3].Success
    /\ allResults[4].Success

(***************************************************************************)
(* Claims about all runs (specification SpecRuns).                         *)
(***************************************************************************)
\* the workers that have an HTTP request in flight
InFlight == {w \in DOMAIN workers : workers[w].st = "exec"}

\* the jobs of the phase that is open, skipped ones included; none when the
\* last phase has ended
JobsInPhase ==
    IF phase \in DOMAIN dagOut.Phases
    THEN Sum([t \in DOMAIN config.Tests |-> JobsOfTest(config, t)],
             {t \in DOMAIN config.Tests : config.Tests[t].Name \in dagOut.Phases[phase]})
    ELSE 0

\* C16: worker cap. In every reachable state of a run the number of HTTP
\* requests in flight is at most the configured worker count and, under the
\* DAG scheduler, at most min(configured workers, jobs in the current phase).
C16_WorkerCap ==
    /\ Cardinality(InFlight) <= config.workers
    /\ pc \in {"dispatch", "wait", "drain"} =>
          Cardinality(InFlight) <= Min(config.workers, JobsInPhase)

\* the second phase of a plan keeps both configured workers busy
C16_Witness ==
    /\ pc = "wait"
    /\ phase = 2
    /\ config.workers = 2
    /\ Cardinality(InFlight) = 2

(***************************************************************************)
(* Claims about duration-based and mixed-mode runs (specification          *)
(* SpecTimed).                                                             *)
(***************************************************************************)
\* C14: cancellation bound. In duration mode with global duration D, also
\* when a test declares its own duration, Run returns no later than D plus
\* one per-request timeout after it started.
C14_CancellationBound ==
    (pc = "done" /\ IsDurationBased(config) /\ ~HasMixedMode(config)) =>
        now <= config.Duration + config.Timeout

\* C15: drain on cancellation. When the run-level cancellation fires while
\* jobs are still buffered in the job channel, workers keep dequeuing until
\* the job channel is empty and only then exit, and the aggregator builds the
\* Summary from exactly the results that arrived.
C15_DrainOnCancellation ==
    /\ \A w \in DOMAIN workers : workers[w].st = "exited" => jobs = <<>>
    /\ pc = "done" =>
          summary.TotalRequests = Sum(requests, DOMAIN requests)

\* C18: mixed mode completion. In mixed mode Run does not end before every
\* per-test producer, duration-based and iteration-based alike, has completed
\* emitting its jobs.
C18_MixedModeCompletion ==
    (pc = "done" /\ HasMixedMode(config)) =>
        \A t \in DOMAIN producer :
            /\ producer[t].finished
            /\ ProducerMode(config, t) = "iteration" =>
                  sent[t] = EffectiveIterations(config, t)

\* C19: mixed mode limits. When both global iterations N and global duration
\* D are set, a test stops when either limit is reached, whichever comes
\* first: it issues at most N requests and issues none after D has elapsed.
C19_MixedModeLimits ==
    (config.Iterations > 0 /\ config.Duration > 0) =>
        \A t \in DOMAIN config.Tests :
            (config.Tests[t].Iterations = 0 /\ config.Tests[t].Duration = 0) =>
                /\ requests[t] <= config.Iterations
                /\ \A w \in DOMAIN workers :
                      (workers[w].st = "exec" /\ workers[w].job = t) =>
                          workers[w].since < config.Duration

(***************************************************************************)
(* Claims about the variable store (specification SpecStore).              *)
(***************************************************************************)
\* C20: variable store serializability. Under any interleaving of concurrent
\* Set, Get, GetString, Delete, Clear, SetFromMap and All calls every call
\* behaves as in some sequential order of the calls (the order in which they
\* got the mutex): a call returns what it returns in that order, so a Get
\* returns the value of the latest preceding Set or SetFromMap on its key, or
\* absent if there is none or a Delete or Clear came later; and whenever no
\* writer is inside, the store is the store of that sequential execution.
C20_StoreSerializability ==
    /\ \A c \in DOMAIN clients :
          clients[c].pc = "ret" => clients[c].ret = clients[c].expect
    /\ lock.writer = 0 => store = linear

\* two goroutines have made calls concurrently: the second, in its second
\* call, has written x = 2 and y with one SetFromMap, and the Get of x of
\* the first has returned 2
C20_Witness ==
    /\ clients[1].pc = "ret"
    /\ clients[1].call.name = "Get"
    /\ clients[1].call.key = "x"
    /\ clients[1].ret = [NoReturn EXCEPT !.ok = TRUE, !.val = IntValue(2)]
    /\ clients[2].calls = 1
    /\ clients[2].pc = "ret"
    /\ clients[2].call.name = "SetFromMap"
    /\ DOMAIN clients[2].call.data = {"x", "y"}
    /\ clients[2].call.data["x"] = IntValue(2)

(***************************************************************************)
(* Claims about Substitute and SubstituteBody (specification               *)
(* SpecSubstitute).                                                        *)
(***************************************************************************)
\* the string rendering of a stored value, "%v"
Rendering(val) ==
    CASE val.t = "int" -> ToString(val.v)
      [] val.t = "string" -> val.v
      [] val.t = "bool" -> (IF val.v THEN "true" ELSE "false")
      [] val.t = "float" -> ToString(val.v) \o "." \o ToString(val.f)
      [] OTHER -> "<nil>"

\* what the claim expects of each piece of the input
RECURSIVE ExpectedText(_)
ExpectedText(pieces) ==
    IF pieces = <<>> THEN ""
    ELSE (IF Head(pieces).kind = "lit" THEN Head(pieces).text
          ELSE IF Head(pieces).text \in DOMAIN store
               THEN Rendering(store[Head(pieces).text])
               ELSE "${" \o Head(pieces).text \o "}")
         \o ExpectedText(Tail(pieces))

\* the names of the tokens of a tokenized string
TokenNames(pieces) == {pieces[i].text : i \in {j \in DOMAIN pieces : pieces[j].kind = "var"}}

\* C21: absent variables stay literal. Substitute replaces every ${NAME}
\* token whose variable is present by the string rendering of its value and
\* leaves every token whose variable is absent exactly as written; text
\* outside tokens is unchanged. In particular an input none of whose tokens
\* names a present variable is returned as it was.
C21_AbsentStaysLiteral ==
    (callIn # <<>> /\ callIn.fn = "Substitute") =>
        /\ callOut.str = ExpectedText(Tokenize(callIn.chars))
        /\ TokenNames(Tokenize(callIn.chars)) \cap DOMAIN store = {} =>
              callOut.str = Join(callIn.chars)

\* "${x1}": the token names the absent x1 while x is present, and the
\* string comes back as it was
C21_Witness ==
    /\ callIn # <<>>
    /\ callIn.fn = "Substitute"
    /\ callIn.chars = <<"$", "{", "x", "1", "}">>
    /\ DOMAIN store = {"x"}
    /\ callOut.str = "${x1}"

\* C22: type preservation. SubstituteBody applied to a string that is exactly
\* one ${x} token with x present returns the stored value itself with its
\* dynamic type (an integer stays an integer and is serialized as a JSON
\* number), while a string with surrounding text or several tokens yields a
\* string.
C22_TypePreservation ==
    (callIn # <<>> /\ callIn.fn = "SubstituteBody") =>
        LET ps == Tokenize(callIn.chars) IN
        IF Len(ps) = 1 /\ ps[1].kind = "var"
        THEN ps[1].text \in DOMAIN store =>
                /\ callOut.val = store[ps[1].text]
                /\ store[ps[1].text].t = "int" =>
                      callOut.json = ToString(store[ps[1].text].v)
        ELSE /\ callOut.val.t = "string"
             /\ callOut.val.v = ExpectedText(ps)

\* "${x}" with x the integer 7: the body becomes the number 7
C22_Witness ==
    /\ callIn # <<>>
    /\ callIn.fn = "SubstituteBody"
    /\ callIn.chars = <<"$", "{", "x", "}">>
    /\ "x" \in DOMAIN store
    /\ callOut.val = IntValue(7)
    /\ callOut.json = "7"

(***************************************************************************)
(* Claims about Extract and the executor's extraction step (specification  *)
(* SpecExtract).                                                           *)
(***************************************************************************)
KnownSources == {"body", "header", "status"}

\* a rule that finds nothing: a body rule whose path is absent from the body
\* or whose body is empty, a header rule whose header is missing or empty
SilentRule(rule, body, headers) ==
    \/ rule.Source = "body" /\ (body = <<>> \/ rule.Path \notin DOMAIN body)
    \/ rule.Source = "header"
          /\ (rule.Path \notin DOMAIN headers \/ headers[rule.Path] = "")

\* what a rule that finds something writes
FoundValue(rule, body, headers, statusCode) ==
    CASE rule.Source = "body" -> IntValue(body[rule.Path].Num)
      [] rule.Source = "header" -> StringValue(headers[rule.Path])
      [] OTHER -> IntValue(statusCode)

\* the variable has the same value, or is absent, in both stores
SameAt(k, st1, st2) ==
    /\ k \in DOMAIN st1 <=> k \in DOMAIN st2
    /\ k \in DOMAIN st1 => st1[k] = st2[k]

\* C23: silent skip in extraction. A body rule whose path is absent from the
\* body (or whose body is empty) and a header rule whose header is missing or
\* empty write nothing: a variable that only such rules name keeps its
\* previous value or stays absent; Extract returns no error for them, and the
\* other rules are still applied: the last rule of a name that finds
\* something decides the value of that name.
C23_SilentSkip ==
    (callIn # <<>> /\ callIn.fn = "Extract") =>
        LET rules == callIn.rules
            silent(i) == SilentRule(rules[i], callIn.body, callIn.headers)
            known == \A i \in DOMAIN rules : rules[i].Source \in KnownSources
        IN /\ \A k \in VarKeys :
                (\A i \in DOMAIN rules : rules[i].Name = k => silent(i)) =>
                    SameAt(k, store, callIn.before)
           /\ known => callOut.err = ""
           /\ known =>
                \A i \in DOMAIN rules :
                    (~silent(i)
                        /\ \A j \in DOMAIN rules :
                              (j > i /\ rules[j].Name = rules[i].Name) => silent(j)) =>
                        /\ rules[i].Name \in DOMAIN store
                        /\ store[rules[i].Name] =
                              FoundValue(rules[i], callIn.body, callIn.headers,
                                         callIn.statusCode)

\* x held 7; a body rule for x with a path the body lacks was followed by a
\* status rule for x1: x is still 7 and x1 is the status code
C23_Witness ==
    /\ callIn # <<>>
    /\ callIn.fn = "Extract"
    /\ callIn.rules = <<[Name |-> "x", Source |-> "body", Path |-> "none"],
                        [Name |-> "x1", Source |-> "status", Path |-> "id"]>>
    /\ callIn.body # <<>>
    /\ callIn.before = [k \in {"x"} |-> IntValue(7)]
    /\ store = [k \in {"x", "x1"} |-> IF k = "x" THEN IntValue(7) ELSE IntValue(StatusOK)]
    /\ callOut.err = ""

C26_EmptyBodyJSONPath ==
    (callIn # <<>> /\ callIn.fn = "evaluateJSONPath") =>
        /\ callIn.body.Len = 0 =>
              (callOut.Passed <=> callIn.assertion.Operator = "not_exists")
        /\ (callIn.body.Len > 0 /\ ~callIn.body.Valid) => ~callOut.Passed

(***************************************************************************)
(* Claims about the tap-compare evaluator (specification SpecCompare).     *)
(***************************************************************************)

\* the diffs of the full body diff: all diffs but the one of the status codes
BodyDiffs == {d \in callOut.FieldDiffs : d.Path # <<"_status_code">>}

\* C27: the Success of Compare is the conjunction of the per-assertion
\* results when assertions are declared, and the emptiness of the full body
\* diff when none is declared.
C27_OverallSuccess ==
    (callIn # <<>> /\ callIn.fn = "Compare") =>
        (callOut.Success <=>
            IF callIn.assertions # <<>>
            THEN \A i \in 1..Len(callOut.AssertionResults) :
                    callOut.AssertionResults[i].Passed
            ELSE BodyDiffs = {})

\* the numbers a field_tolerance assertion reads from the two bodies
TolerancePrimary == GetBytes(callIn.ctx.PrimaryBody.Root, callIn.assertions[1].Target)
ToleranceCompare == GetBytes(callIn.ctx.CompareBody.Root, callIn.assertions[1].Target)

\* one field_tolerance assertion with a float tolerance below 1 on a number
\* that both bodies hold
FloatToleranceCase ==
    /\ callIn # <<>>
    /\ callIn.fn = "Compare"
    /\ Len(callIn.assertions) = 1
    /\ callIn.assertions[1].Type = "field_tolerance"
    /\ callIn.assertions[1].Tolerance.t = "float"
    /\ callIn.assertions[1].Tolerance.h < 100
    /\ TolerancePrimary.Exists /\ TolerancePrimary.Val.k = "num"
    /\ ToleranceCompare.Exists /\ ToleranceCompare.Val.k = "num"

\* C28: a field_tolerance assertion with a float tolerance t below 1 passes
\* exactly when |compare - primary| <= t * |primary|, and when it fails the
\* result holds a diff at the asserted path with type value_mismatch.
C28_FieldTolerance ==
    FloatToleranceCase =>
        LET p == TolerancePrimary.Val.n
            c == ToleranceCompare.Val.n
            t == callIn.assertions[1].Tolerance.h
            passed == callOut.AssertionResults[1].Passed
        IN  /\ passed <=> (100 * (IF c < p THEN p - c ELSE c - p)
                              <= t * (IF p < 0 THEN 0 - p ELSE p))
            /\ ~passed =>
                  \E d \in callOut.FieldDiffs :
                      /\ d.Path = callIn.assertions[1].Target
                      /\ d.DiffType = "value_mismatch"

(***************************************************************************)
(* Claims about main (specification SpecMain).                             *)
(***************************************************************************)

\* no request of the run failed
NoRequestFailed == \A i \in DOMAIN allResults : allResults[i].Success

\* the configuration was given, loaded and valid
ConfigLoaded == callIn.flags.configFile # "" /\ ~callIn.loadErr

\* C29 as stated: the process exits with 0 exactly when the configuration
\* was loaded and no test request of the run failed, and with 1 otherwise.
C29_ExitCodeOfRequests ==
    (pc = "exited" /\ ~callIn.flags.showVersion) =>
        /\ callOut.exit \in {0, 1}
        /\ callOut.exit = 0 <=> (ConfigLoaded /\ NoRequestFailed)

\* C29, amended: the process exits with 0 exactly when -version was asked
\* for, or the configuration was loaded and either only its validation was
\* asked for or no test request of the run failed and the report was
\* generated; it exits with 1 otherwise.
C29_ExitCode ==
    pc = "exited" =>
        /\ callOut.exit \in {0, 1}
        /\ callOut.exit = 0 <=>
              \/ callIn.flags.showVersion
              \/ /\ ConfigLoaded
                 /\ \/ callIn.flags.validateOnly
                    \/ NoRequestFailed /\ ~callOut.reportErr

C29_Witness ==
    /\ pc = "exited"
    /\ callOut.ran
    /\ ~callOut.reportErr
    /\ callOut.exit = 1
    /\ \E i \in DOMAIN allResults : ~allResults[i].Success
    /\ \E i \in DOMAIN allResults : allResults[i].Success

(***************************************************************************)
(* More claims about BuildDAG (specification SpecBuildDAG).                *)
(***************************************************************************)

\* C35: BuildDAG returns the cyclic-dependency error only for an input whose
\* dependency graph contains a cycle, also when two entries of the input
\* list carry the same name.
C35_CycleErrorSoundness ==
    (dagPc = "returned" /\ dagOut.err = "cyclic dependency") => HasCycle(dagTests)

(***************************************************************************)
(* More claims about Extract (specification SpecExtract).                  *)
(***************************************************************************)

\* the rules Extract reaches: those before the first rule with an unknown
\* source, all of them when there is none
ReachedRules(rules) ==
    {i \in DOMAIN rules : \A j \in 1..i : rules[j].Source \in KnownSources}

\* C37: Extract applies its rules in list order and stops at the first rule
\* with an unknown source: the variables written by the rules before it stay
\* in the store, and the rules after it are never applied.
C37_NoRollback ==
    (callIn # <<>> /\ callIn.fn = "Extract") =>
        LET rules == callIn.rules
            writes(k) == {i \in ReachedRules(rules) :
                            /\ rules[i].Name = k
                            /\ ~SilentRule(rules[i], callIn.body, callIn.headers)}
        IN  \A k \in VarKeys :
                IF writes(k) = {} THEN SameAt(k, store, callIn.before)
                ELSE /\ k \in DOMAIN store
                     /\ store[k] = FoundValue(rules[MaxOf(writes(k))], callIn.body,
                                              callIn.headers, callIn.statusCode)

\* a status rule for x, a rule with the source "cookie", a status rule for
\* x1: x was written and stays, x1 was never written
C37_Witness ==
    /\ callIn # <<>>
    /\ callIn.fn = "Extract"
    /\ callIn.before = <<>>
    /\ Len(callIn.rules) = 3
    /\ callIn.rules[1].Name = "x" /\ callIn.rules[1].Source = "status"
    /\ callIn.rules[2].Source = "cookie"
    /\ callIn.rules[3].Name = "x1" /\ callIn.rules[3].Source = "status"
    /\ callOut.err # ""
    /\ "x" \in DOMAIN store
    /\ store["x"] = IntValue(StatusOK)
    /\ "x1" \notin DOMAIN store

(***************************************************************************)
(* More claims about the flat engine (specification Spec).                 *)
(***************************************************************************)

\* C36: when Run returns, the counts of the status-code histogram sum to
\* TotalRequests (a request without response is counted under the key 0),
\* the counts of the error histogram sum to FailedReqs, and the
\* TotalRequests, SuccessfulReqs and FailedReqs of the EndpointSummaries sum
\* to the global counters.
C36_HistogramTotals ==
    pc = "done" =>
        LET eps == summary.EndpointResults IN
        /\ Sum(summary.StatusCodes, DOMAIN summary.StatusCodes) = summary.TotalRequests
        /\ Sum(summary.Errors, DOMAIN summary.Errors) = summary.FailedReqs
        /\ Sum([k \in DOMAIN eps |-> eps[k].TotalRequests], DOMAIN eps)
              = summary.TotalRequests
        /\ Sum([k \in DOMAIN eps |-> eps[k].SuccessfulReqs], DOMAIN eps)
              = summary.SuccessfulReqs
        /\ Sum([k \in DOMAIN eps |-> eps[k].FailedReqs], DOMAIN eps)
              = summary.FailedReqs

\* a run with a 200, a 500 and a request without response, over two endpoints
C36_Witness ==
    /\ pc = "done"
    /\ DOMAIN summary.StatusCodes = {StatusOK, StatusServerError, NoResponse}
    /\ Cardinality(DOMAIN summary.Errors) = 2
    /\ summary.FailedReqs > 2
    /\ DOMAIN summary.EndpointResults = {"A", "B"}

(***************************************************************************)
(* More claims about the tap-compare evaluator (specification SpecCompare).*)
(***************************************************************************)

\* the path or one of its ancestors is listed
UnderIgnored(ignoreFields, path) ==
    \E i \in 1..Len(path) : SubSeq(path, 1, i) \in ignoreFields

\* a JSON value without the listed paths and their descendants
RECURSIVE Pruned(_, _, _)
Pruned(ignoreFields, value, path) ==
    IF value.k = "obj"
    THEN JObj([key \in {x \in DOMAIN value.m :
                          ~UnderIgnored(ignoreFields, Append(path, x))} |->
                 Pruned(ignoreFields, value.m[key], Append(path, key))])
    ELSE IF value.k = "arr"
    THEN JArr([i \in DOMAIN value.a |->
                 Pruned(ignoreFields, value.a[i], ElemPath(path, i - 1))])
    ELSE value

DiffKinds == {"missing", "extra", "type_mismatch", "value_mismatch"}

\* Compare was called on two JSON bodies with equal status codes and no
\* assertions
FullBodyDiffCase ==
    /\ callIn # <<>>
    /\ callIn.fn = "Compare"
    /\ callIn.assertions = <<>>
    /\ callIn.ctx.PrimaryStatusCode = callIn.ctx.CompareStatusCode
    /\ callIn.ctx.PrimaryBody.Valid
    /\ callIn.ctx.CompareBody.Valid

\* the two bodies are equal once the ignored paths are removed from both
EqualWhenPruned ==
    Pruned(callIn.e.ignoreFields, callIn.ctx.PrimaryBody.Root, <<>>)
        = Pruned(callIn.e.ignoreFields, callIn.ctx.CompareBody.Root, <<>>)

HeldRenderings == {Rendering(v) : v \in Vals}

\* C40: per-token atomicity of substitution. When Substitute runs
\* concurrently with Set, Delete or Clear on the same variable, each token
\* is replaced by the string rendering of a value the variable held or is
\* left literal; it is never replaced by the empty string because the
\* variable vanished between the presence check and the read of its value.
C40_TokenAtomicity ==
    callIn # <<>> =>
        \A i \in DOMAIN callOut.parts :
            callIn.pieces[i].kind = "var" =>
                callOut.parts[i] \in
                    HeldRenderings \cup {"${" \o callIn.pieces[i].text \o "}"}
(***************************************************************************)
(* Claims about the total time of a flat run (specification SpecTotalTime). *)
(***************************************************************************)
\* C39: flat-mode total time is never negative. For every interleaving of
\* concurrent workers the TotalTime computed as (timestamp of the last result
\* to arrive - timestamp of the first result to arrive) + response time of
\* the last result to arrive is at least zero, so RequestsPerSec is computed
\* for every run with at least one timed result.
C39_TotalTimeNonNegative ==
    (pc = "done" /\ allResults # <<>>) =>
        /\ callOut.TotalTime >= 0
        /\ (\E i \in DOMAIN allResults : allResults[i].ResponseTime > 0) =>
              callOut.RequestsPerSec.requests = Len(allResults)

\* the same with one worker: the results arrive in the order in which their
\* requests started
C39_OneWorker ==
    (pc = "done" /\ allResults # <<>> /\ WorkerCount(config) = 1) =>
        /\ callOut.TotalTime >= 0
        /\ (\E i \in DOMAIN allResults : allResults[i].ResponseTime > 0) =>
              callOut.RequestsPerSec.requests = Len(allResults)
(***************************************************************************)
(* Claims about the verbose log (specification SpecVerbose).               *)
(***************************************************************************)
\* how many of the first n records of a list are of a type and carry an id
CountLogs(logs, n, id, type) ==
    Cardinality({i \in 1..n : logs[i].RequestID = id /\ logs[i].Type = type})

\* in a list of records, every response record comes after a request record
\* with its id that no earlier response record answers
RequestBeforeResponse(logs) ==
    \A j \in DOMAIN logs :
        logs[j].Type = "response" =>
            CountLogs(logs, j, logs[j].RequestID, "request")
                >= CountLogs(logs, j, logs[j].RequestID, "response")

\* C32: verbose log ordering. In verbose mode, for every correlation id that
\* occurs in Summary.DebugLogs, the request record precedes the response
\* record with the same id, and every response record has a request record
\* with the same id, for any number of concurrent workers.
C32_LogOrdering ==
    /\ RequestBeforeResponse(callOut.debugLogs)
    /\ pc = "done" => RequestBeforeResponse(callOut.DebugLogs)

\* Run has returned a log of two workers' exchanges with different ids, the
\* records of the one enclosed by the records of the other
C32_Witness ==
    /\ pc = "done"
    /\ WorkerCount(config) = 2
    /\ callOut.DebugLogs = <<DebugLog(1, "request"), DebugLog(2, "request"),
                             DebugLog(2, "response"), DebugLog(1, "response")>>

\* C38: verbose log completeness. In verbose mode every request and response
\* record that a worker enqueued on the log channel during the run is
\* contained in Summary.DebugLogs when Run returns, for every interleaving of
\* the logger task with the end of Run.
C38_LogCompleteness ==
    pc = "done" => callOut.DebugLogs = callOut.enqueued
(***************************************************************************)
(* Claims about the workers' sleeps (specification SpecSleep).             *)
(***************************************************************************)
\* the context was cancelled while the worker was in its last sleep: after
\* the sleep had begun and before its time was over
CancelledAsleep(w) ==
    /\ workers[w].slept \in {"think", "delay"}
    /\ workers[w].since <= Deadline(config)
    /\ Deadline(config) < workers[w].wake

\* C31: preemptible sleeps. If the run-level context is cancelled while a
\* worker is sleeping in its think time or in its inter-request delay, the
\* sleep ends at once and the worker exits without dequeuing or executing
\* another job.
C31_PreemptibleSleeps ==
    \A w \in DOMAIN workers :
        CancelledAsleep(w) =>
            /\ workers[w].st \in {workers[w].slept, "exited"}
            /\ workers[w].st = workers[w].slept => now <= Deadline(config)

\* a worker has exited from its delay, cancelled one tick after the delay
\* began and before it was over, while a job waits in the channel
C31_Witness ==
    \E w \in DOMAIN workers :
        /\ CancelledAsleep(w)
        /\ workers[w].slept = "delay"
        /\ workers[w].since < Deadline(config)
        /\ workers[w].st = "exited"
        /\ jobs # <<>>

\* a worker has exited from its think time, cancelled one tick after the
\* think time began, and the job it had dequeued is not executed
C31_ThinkTimeCancelled ==
    \E w \in DOMAIN workers :
        /\ CancelledAsleep(w)
        /\ workers[w].slept = "think"
        /\ workers[w].since < Deadline(config)
        /\ workers[w].st = "exited"
        /\ pc = "done"
        /\ summary.TotalRequests < sent[1]
(***************************************************************************)
(* Claims about termination (specification SpecLive).                      *)
(***************************************************************************)
\* C34: Run terminates. For every config and every worker count of at least
\* 1, in iteration, duration and mixed mode, Run eventually returns a
\* Summary provided every HTTP exchange completes or times out: the job
\* channel is closed or the context expires, all workers exit, the result
\* channel is closed and the aggregator finishes.
C34_RunTerminates ==
    <>(/\ pc = "done"
       /\ \A w \in DOMAIN workers : workers[w].st = "exited"
       /\ resultsClosed
       /\ results = <<>>
       /\ jobsClosed \/ (TimedRun /\ CtxDone))

\* a mixed-mode run of two workers has returned a summary of at least two
\* requests after its context expired
C34_Witness ==
    /\ pc = "done"
    /\ TimedRun
    /\ HasMixedMode(config)
    /\ WorkerCount(config) = 2
    /\ CtxDone
    /\ summary.TotalRequests >= 2

====
